---- MODULE Spec2Model ----
(***************************************************************************)
(* A model of the WebWeaver research pipeline: the evidence bank           *)
(* (memory/evidence_bank.py), the event recorder and the orchestrator      *)
(* (orchestrator/runner.py, recording/file_recorder.py), the planner's     *)
(* output parser (agents/planner.py), the writer's retrieval and the       *)
(* search providers (tools/web_search.py).                                 *)
(*                                                                         *)
(* Python strings are modelled as sequences of one-character tokens.       *)
(* "NL" is the newline character, "LS" is U+2028 LINE SEPARATOR, "SP" a    *)
(* blank; every other token is an ordinary character.                      *)
(***************************************************************************)
EXTENDS Integers, Sequences, FiniteSets, TLC

VARIABLES
    \* ---- EvidenceBank object and its directory ----
    evidences,            \* self._evidences: dict kept as a sequence in insertion order
    content_hash_to_id,   \* self._content_hash_to_id
    next_id,              \* self._next_id
    jsonl,                \* the characters of evidence.jsonl
    raw_files,            \* the files under raw/
    bank_alive,           \* FALSE once the constructor has raised
    reopened,             \* TRUE once a second EvidenceBank was built on the directory
    n_adds,               \* number of add calls made so far
    last,                 \* the last call on the bank and what it answered
    first_ret,            \* history: (url, raw_text) -> record the first returned add gave
    pre,                  \* history: the in-memory bank right before the last Reopen
    had_failure,          \* history: some add has raised
    \* ---- concurrent add calls (worker threads of asyncio.to_thread) ----
    tpc,                  \* per task: position inside EvidenceBank.add
    targ,                 \* per task: the arguments of its add call
    tloc,                 \* per task: the locals of its add call
    \* ---- PlannerAgent._parse_action applied to one LLM output ----
    raw_out,              \* the LLM output
    parsed,               \* TRUE once _parse_action has returned
    action,               \* the action it returned
    \* ---- one run of the orchestrator ----
    mode,                 \* "sync": run_research_stream, "async": run_research_stream_async
    redis_enabled,        \* settings.redis_enabled
    rpc,                  \* where the run stands
    step_idx,             \* planner loop index
    outline,              \* the Outline object; version 0 stands for None
    outline_md,           \* the text of outline.md
    report_written,       \* report.md exists
    seq,                  \* emit's counter
    events,               \* events.jsonl
    redis_log,            \* the Redis list of the run
    yielded,              \* the events handed to the consumer
    pending,              \* queries of the current search action not yet run
    sections,             \* the sections the writer loops over
    sec_idx,              \* writer loop index (from 1)
    step_in_section,      \* writer step index inside the section
    ev_count,             \* records added to the run's evidence bank
    early_terms,          \* history: positions of the planner_step events whose
                          \* LLM answer was a Terminate while no outline existed
    planner_wrote,        \* history: the planner took a WriteOutline action
    \* ---- the writer loop over a filled bank ----
    wbank,                \* the evidences of the bank, in insertion order
    wsections,            \* per section: the citation ids of its outline body
    used_ids,             \* used_ids of the run
    wsec,                 \* section index (from 1)
    wstep,                \* step_in_section
    tool_response,        \* the section's tool_response variable
    given,                \* history: what the latest writer.step call was given
    wlast,                \* the previous step of the section and its retrieve
    surfaced,             \* history: ids listed in a writer_retrieve_results event
    resurfaced,           \* history: some id was listed a second time
    wpc,                  \* where the writer loop stands
    refs,                 \* the ids of the entries of the references list
    \* ---- one search query and its selected URLs ----
    umode,                \* "sync" or "async", as mode
    provider,             \* settings.search_provider
    failing_attempts,     \* how many calls of the search backend fail before one succeeds
    qpc,                  \* "search": before the provider call, "urls": after it
    qevents,              \* the events emitted for the query itself
    selected,             \* the selected results, each with what its page comes to
    finished,             \* the URLs whose processing has ended, in completion order
    url_results,          \* per selected URL: what process_single_url returned
    uevents,              \* the events emitted for the selected URLs
    emitted,              \* number of selected URLs whose events have been emitted
    \* ---- both runners on the same external responses ----
    runs,                 \* per mode: where that runner stands and what it has emitted
    \* ---- replay_run on a recorded run ----
    replayed,             \* what replay_run gave
    \* ---- one TavilySearchProvider.search call ----
    tavily,               \* configuration, loop position, attempts made, waits, outcome
    \* ---- CircuitBreaker with concurrent callers ----
    breaker,              \* state, failure_count, last_failure_time, clock, callers
    \* ---- RateLimiter with concurrent callers ----
    limiter,              \* tokens, last_update, clock, callers
    \* ---- extract_citation_ids ----
    cites,                \* the text given and the ids returned
    \* ---- the writer's parser applied to one LLM output ----
    wparse,               \* the output, the action parsed from it, the top_k used
    \* ---- UrlFilter.select_urls ----
    ufilter,              \* the results given, the LLM's answer, the results selected
    \* ---- the result list of one provider call ----
    provres               \* the raw items and the results returned

bankVars == <<evidences, content_hash_to_id, next_id, jsonl, raw_files, bank_alive,
              reopened, n_adds, last, first_ret, pre, had_failure>>
concVars == <<tpc, targ, tloc>>
parseVars == <<raw_out, parsed, action>>
runVars == <<mode, redis_enabled, rpc, step_idx, outline, outline_md, report_written, seq,
             events, redis_log, yielded, pending, sections, sec_idx, step_in_section,
             ev_count, early_terms, planner_wrote>>
writerVars == <<wbank, wsections, used_ids, wsec, wstep, tool_response, given, wlast,
                surfaced, resurfaced, wpc, refs>>
urlVars == <<umode, provider, failing_attempts, qpc, qevents, selected, finished,
             url_results, uevents, emitted>>
pairVars == <<runs>>
replayVars == <<replayed>>
laterVars == <<wparse, ufilter, provres>>
auxVars == <<replayVars, tavily, breaker, limiter, cites, laterVars>>
vars == <<bankVars, concVars, parseVars, runVars, writerVars, urlVars, pairVars, auxVars>>

-----------------------------------------------------------------------------
(* Bounds of the model *)

MaxAdds == 3
NumTasks == 2
MaxOutputLen == 5
PlannerMaxSteps == 2
MaxQueriesPerStep == 1
MaxUrlsPerQuery == 1
WriterMaxStepsPerSection == 1
MaxSeq == 12
WriterBankSize == 2
WriterSteps == 2
MaxTopK == 2
WriterSectionMaxEvidences == 2

-----------------------------------------------------------------------------
(* Small input domains *)

Urls == {<<"x">>, <<"y">>}
Queries == {<<"q">>}
\* one summary holding a newline, one holding U+2028
Summaries == {<<"s", "NL", "t">>, <<"s", "LS", "t">>}
\* <<>> stands for raw_text None or "" (both falsy at evidence_bank.py:108)
RawTexts == {<<>>, <<"h">>}

-----------------------------------------------------------------------------
(* Helpers on sequences *)

Last(s) == s[Len(s)]

\* all sequences over S of length at most n
SeqsUpTo(S, n) == UNION {[1..k -> S] : k \in 0..n}

-----------------------------------------------------------------------------
(* utils/ids.py *)

DigitStr == <<"0", "1", "2", "3", "4", "5", "6", "7", "8", "9">>

RECURSIVE Digits(_)
Digits(n) == IF n < 10 THEN <<DigitStr[n + 1]>>
             ELSE Digits(n \div 10) \o <<DigitStr[(n % 10) + 1]>>

RECURSIVE ZeroPad(_, _)
ZeroPad(ds, w) == IF Len(ds) >= w THEN ds ELSE ZeroPad(<<"0">> \o ds, w)

\* f"{prefix}{n:04d}"
FormatEvidenceId(n) == <<"ev_">> \o ZeroPad(Digits(n), 4)

DigitVal(c) == CHOOSE d \in 0..9 : DigitStr[d + 1] = c

RECURSIVE ParseInt(_)
ParseInt(ds) == IF Len(ds) = 1 THEN DigitVal(ds[1])
                ELSE 10 * ParseInt(SubSeq(ds, 1, Len(ds) - 1)) + DigitVal(Last(ds))

IsDigits(ds) == /\ Len(ds) >= 1
                /\ \A i \in 1..Len(ds) : \E d \in 0..9 : DigitStr[d + 1] = ds[i]

\* int(ev.evidence_id.split("_")[-1]); -1 when int() raises
IdNumber(id) == IF Len(id) >= 2 /\ id[1] = "ev_" /\ IsDigits(Tail(id))
                THEN ParseInt(Tail(id)) ELSE -1

-----------------------------------------------------------------------------
(* memory/evidence_bank.py: pure parts *)

NoHash == <<>>
NoId == <<>>
NoEv == [evidence_id |-> NoId, query |-> <<>>, url |-> <<>>, summary |-> <<>>,
         raw_text_ref |-> <<>>, content_hash |-> NoHash]

\* sha256(url + "\n" + text).hexdigest(); the digest is kept as its preimage
HashContent(url, text) == url \o <<"NL">> \o text

\* the name _store_raw_text returns: raw/<ts>_<hash12>.txt
RawTextRef(h) == <<"raw/">> \o h

\* mutant: the dedup lookup never finds anything
ExistingIdNever(map, h) == NoId

\* self._content_hash_to_id.get(content_hash)
ExistingId(map, h) == IF h \in DOMAIN map THEN map[h] ELSE NoId

\* mutant: the counter skips a number
NextIdAfterSkip(n) == n + 2

\* self._next_id += 1
NextIdAfter(n) == n + 1

DictHas(d, id) == \E i \in 1..Len(d) : d[i].evidence_id = id

DictGet(d, id) == d[CHOOSE i \in 1..Len(d) : d[i].evidence_id = id]

\* d[id] = ev on an insertion-ordered dict
DictPut(d, ev) ==
    IF DictHas(d, ev.evidence_id)
    THEN [i \in 1..Len(d) |-> IF d[i].evidence_id = ev.evidence_id THEN ev ELSE d[i]]
    ELSE Append(d, ev)

MapPut(map, h, id) == [k \in DOMAIN map \cup {h} |-> IF k = h THEN id ELSE map[k]]

MakeEvidence(id, query, url, summary, ref, h) ==
    [evidence_id |-> id, query |-> query, url |-> url, summary |-> summary,
     raw_text_ref |-> ref, content_hash |-> h]

-----------------------------------------------------------------------------
(* JSON lines: json.dumps(..., ensure_ascii=False) and json.loads.         *)
(* A record is written as { f1 , f2 , ... } ; inside a string json.dumps   *)
(* escapes the newline (token "ESC_NL") and leaves U+2028 as it is.        *)

EscapeChar(c) == IF c = "NL" THEN "ESC_NL" ELSE c
UnescapeChar(c) == IF c = "ESC_NL" THEN "NL" ELSE c

JsonString(s) == [i \in 1..Len(s) |-> EscapeChar(s[i])]
JsonUnstring(s) == [i \in 1..Len(s) |-> UnescapeChar(s[i])]

JsonOptional(s) == IF s = <<>> THEN <<"null">> ELSE JsonString(s)
JsonUnoptional(s) == IF s = <<"null">> THEN <<>> ELSE JsonUnstring(s)

\* _append_jsonl: the line written for ev, with its trailing "\n"
DumpLine(ev) ==
    <<"{">> \o JsonString(ev.evidence_id) \o <<",">> \o JsonString(ev.query) \o <<",">>
      \o JsonString(ev.url) \o <<",">> \o JsonString(ev.summary) \o <<",">>
      \o JsonOptional(ev.raw_text_ref) \o <<",">> \o JsonOptional(ev.content_hash)
      \o <<"}", "NL">>

\* str.splitlines(): the line boundaries include "\n" and U+2028
IsLineBoundary(c) == c \in {"NL", "LS"}

RECURSIVE SplitLinesFrom(_, _, _)
SplitLinesFrom(text, cur, out) ==
    IF text = <<>> THEN (IF cur = <<>> THEN out ELSE Append(out, cur))
    ELSE IF IsLineBoundary(Head(text))
         THEN SplitLinesFrom(Tail(text), <<>>, Append(out, cur))
         ELSE SplitLinesFrom(Tail(text), Append(cur, Head(text)), out)

SplitLines(text) == SplitLinesFrom(text, <<>>, <<>>)

RECURSIVE SplitFieldsFrom(_, _, _)
SplitFieldsFrom(text, cur, out) ==
    IF text = <<>> THEN Append(out, cur)
    ELSE IF Head(text) = ","
         THEN SplitFieldsFrom(Tail(text), <<>>, Append(out, cur))
         ELSE SplitFieldsFrom(Tail(text), Append(cur, Head(text)), out)

\* json.loads(line) and TypeAdapter(Evidence).validate_python(data)
LineIsValid(line) ==
    /\ Len(line) >= 2
    /\ line[1] = "{"
    /\ Last(line) = "}"
    /\ \A i \in 2..(Len(line) - 1) : line[i] \notin {"{", "}"}
    /\ Len(SplitFieldsFrom(SubSeq(line, 2, Len(line) - 1), <<>>, <<>>)) = 6

ParseLine(line) ==
    LET f == SplitFieldsFrom(SubSeq(line, 2, Len(line) - 1), <<>>, <<>>)
    IN MakeEvidence(JsonUnstring(f[1]), JsonUnstring(f[2]), JsonUnstring(f[3]),
                    JsonUnstring(f[4]), JsonUnoptional(f[5]), JsonUnoptional(f[6]))

Max(a, b) == IF a >= b THEN a ELSE b

\* _load_existing, one line after the other; ok = FALSE when json.loads raised
RECURSIVE LoadLines(_, _)
LoadLines(lines, st) ==
    IF lines = <<>> \/ ~st.ok THEN st
    ELSE LET line == Head(lines) IN
         IF line = <<>> THEN LoadLines(Tail(lines), st)
         ELSE IF ~LineIsValid(line) THEN [st EXCEPT !.ok = FALSE]
         ELSE LET ev == ParseLine(line)
                  n == IdNumber(ev.evidence_id)
              IN LoadLines(Tail(lines),
                    [ok |-> TRUE,
                     evidences |-> DictPut(st.evidences, ev),
                     map |-> IF ev.content_hash # NoHash
                             THEN MapPut(st.map, ev.content_hash, ev.evidence_id)
                             ELSE st.map,
                     next_id |-> IF n >= 0 THEN Max(st.next_id, n + 1) ELSE st.next_id])

EmptyMap == [k \in {} |-> NoId]

\* EvidenceBank.__init__ followed by _load_existing
LoadExisting(text) ==
    LoadLines(SplitLines(text),
              [ok |-> TRUE, evidences |-> <<>>, map |-> EmptyMap, next_id |-> 1])

-----------------------------------------------------------------------------
(* agents/planner.py and utils/tags.py: the planner's output parser.        *)
(* An LLM output is a sequence of tokens: the six tag tokens, a JSON object *)
(* (one token), blanks ("SP", "NL", "B" for a blank line) and other text.   *)

NoAction == [kind |-> "none", text |-> <<>>, reason |-> <<>>, queries |-> <<>>]

ParseIdle ==
    /\ raw_out = <<>>
    /\ parsed = FALSE
    /\ action = NoAction

IsSpace(c) == c \in {"SP", "NL", "B"}

RECURSIVE LStrip(_)
LStrip(s) == IF s # <<>> /\ IsSpace(Head(s)) THEN LStrip(Tail(s)) ELSE s

RECURSIVE RStrip(_)
RStrip(s) == IF s # <<>> /\ IsSpace(Last(s)) THEN RStrip(SubSeq(s, 1, Len(s) - 1)) ELSE s

\* str.strip()
Strip(s) == RStrip(LStrip(s))

NoMatch == <<"NO_MATCH">>

\* the lazy body (.*?) from position j on: up to the first closing tag
RECURSIVE LazyBody(_, _, _, _)
LazyBody(text, close, start, j) ==
    IF j > Len(text) THEN NoMatch
    ELSE IF text[j] = close THEN SubSeq(text, start, j - 1)
    ELSE LazyBody(text, close, start, j + 1)

\* re.search(r"<tag>(?P<body>.*?)</tag>", text, re.DOTALL).group("body")
RECURSIVE SearchBlockFrom(_, _, _, _)
SearchBlockFrom(text, open, close, i) ==
    IF i > Len(text) THEN NoMatch
    ELSE IF text[i] = open /\ LazyBody(text, close, i + 1, i + 1) # NoMatch
         THEN LazyBody(text, close, i + 1, i + 1)
         ELSE SearchBlockFrom(text, open, close, i + 1)

SearchBlock(text, open, close) == SearchBlockFrom(text, open, close, 1)

\* the JSON objects an output may hold, as json.loads returns them
JsonTokens ==
    {"J_SEARCH1", "J_SEARCH2", "J_NOQUERY", "J_OTHER", "J_RETRIEVE", "J_RETRIEVE_K0",
     "J_RETRIEVE_K5"}

\* name, arguments.query (the planner's search), arguments.top_k (the writer's
\* retrieve; has_top_k = FALSE: the key is absent)
JsonWith(name, queries, has_top_k, top_k) ==
    [name |-> name, queries |-> queries, has_top_k |-> has_top_k, top_k |-> top_k]

JsonObject(tok) ==
    CASE tok = "J_SEARCH1" -> JsonWith("search", <<"k">>, FALSE, 0)
      [] tok = "J_SEARCH2" -> JsonWith("search", <<"k", "m">>, FALSE, 0)
      [] tok = "J_NOQUERY" -> JsonWith("search", <<>>, FALSE, 0)
      [] tok = "J_OTHER" -> JsonWith("lookup", <<>>, FALSE, 0)
      [] tok = "J_RETRIEVE" -> JsonWith("retrieve", <<>>, FALSE, 0)
      [] tok = "J_RETRIEVE_K0" -> JsonWith("retrieve", <<>>, TRUE, 0)
      [] tok = "J_RETRIEVE_K5" -> JsonWith("retrieve", <<>>, TRUE, 5)
      [] OTHER -> JsonWith("none", <<>>, FALSE, 0)

NoJson == JsonWith("none", <<>>, FALSE, 0)

\* tags.py extract_json_object: the first {...} of the text, None when absent
RECURSIVE ExtractJsonObject(_)
ExtractJsonObject(text) ==
    IF text = <<>> THEN NoJson
    ELSE IF Head(text) \in JsonTokens THEN JsonObject(Head(text))
    ELSE ExtractJsonObject(Tail(text))

\* tags.py find_tag_block(text, "tool_call"); empty and missing blocks are both falsy
FindToolCallBlock(text) ==
    LET b == SearchBlock(text, "TC_OPEN", "TC_CLOSE")
    IN IF b = NoMatch THEN <<>> ELSE Strip(b)

\* tags.py parse_tool_call_payload
ParseToolCallPayload(text) ==
    LET block == FindToolCallBlock(text)
    IN IF block # <<>> /\ ExtractJsonObject(block) # NoJson
       THEN ExtractJsonObject(block)
       ELSE ExtractJsonObject(text)

WriteOutlineAction(text) ==
    [kind |-> "write_outline", text |-> text, reason |-> <<>>, queries |-> <<>>]
TerminateAction(reason) ==
    [kind |-> "terminate", text |-> <<>>, reason |-> reason, queries |-> <<>>]
SearchAction(queries) ==
    [kind |-> "search", text |-> <<>>, reason |-> <<>>, queries |-> queries]

\* planner.py:185-206: tool call, salvage, unparseable
ParseToolCallOrSalvage(raw) ==
    LET data == ParseToolCallPayload(raw) IN
    IF data # NoJson
    THEN IF data.name # "search" THEN TerminateAction(<<"unsupported_tool">>)
         ELSE IF data.queries = <<>> THEN TerminateAction(<<"no_queries">>)
         ELSE SearchAction(data.queries)
    ELSE IF raw # <<>> THEN WriteOutlineAction(raw)
    ELSE TerminateAction(<<"unparseable_output">>)

\* planner.py:180-183 and what follows
ParseTerminateOrLater(raw) ==
    LET m_term == SearchBlock(raw, "T_OPEN", "T_CLOSE") IN
    IF m_term # NoMatch
    THEN TerminateAction(IF Strip(m_term) = <<>> THEN <<"terminated">> ELSE Strip(m_term))
    ELSE ParseToolCallOrSalvage(raw)

\* mutant: <terminate> is looked for before <write_outline>
PlannerParseActionTerminateFirst(raw0) ==
    LET raw == Strip(raw0)
        m_term == SearchBlock(raw, "T_OPEN", "T_CLOSE")
        m_outline == SearchBlock(raw, "WO_OPEN", "WO_CLOSE")
    IN IF m_term # NoMatch
       THEN TerminateAction(IF Strip(m_term) = <<>> THEN <<"terminated">> ELSE Strip(m_term))
       ELSE IF m_outline # NoMatch THEN WriteOutlineAction(Strip(m_outline))
       ELSE ParseToolCallOrSalvage(raw)

\* PlannerAgent._parse_action
PlannerParseAction(raw0) ==
    LET raw == Strip(raw0)
        m_outline == SearchBlock(raw, "WO_OPEN", "WO_CLOSE")
    IN IF m_outline # NoMatch THEN WriteOutlineAction(Strip(m_outline))
       ELSE ParseTerminateOrLater(raw)


-----------------------------------------------------------------------------
(* orchestrator/runner.py: events, outlines and the pure helpers of a run.  *)
(* An outline text is a sequence of lines: "H1" is the line "# Report",     *)
(* "H2a"/"H2b"/"H2c" are "## ..." headings, "L" a line of prose, "C0" the   *)
(* line "<citation></citation>" and "B" an empty line.                      *)

OrigQuery == "Q"

NoOutline == [text |-> <<>>, version |-> 0]

Absent == <<"ABSENT">>

RunIdle ==
    /\ mode = "sync"
    /\ redis_enabled = FALSE
    /\ rpc = "idle"
    /\ step_idx = 0
    /\ outline = NoOutline
    /\ outline_md = Absent
    /\ report_written = FALSE
    /\ seq = 0
    /\ events = <<>>
    /\ redis_log = <<>>
    /\ yielded = <<>>
    /\ pending = <<>>
    /\ sections = <<>>
    /\ sec_idx = 0
    /\ step_in_section = 0
    /\ ev_count = 0
    /\ early_terms = {}
    /\ planner_wrote = FALSE

\* events.py RunEvent: the fields the model keeps
RunEvent(n, pe) == [seq |-> n, ct |-> pe.ct, q |-> pe.q, v |-> pe.v]

\* One call of emit as an action plans it: content type and data (q, v), the
\* outcome f of the call ("ok", or a failure that the enclosing try swallows),
\* sw = the call stands inside a try/except Exception, w = an artifact file
\* is written right before the call, adds = bank records added by this
\* handler before the call.
P(ct) == [ct |-> ct, q |-> "", v |-> 0, f |-> "ok", sw |-> FALSE, w |-> FALSE, adds |-> 0]

\* emit (runner.py:867-887 and 115-135): seq += 1, recorder.append,
\* redis_recorder.append, return the event to be yielded.  f = "file_fail":
\* recorder.append raises; f = "redis_fail": redis_recorder.append raises;
\* f = "io_fail": the artifact write before the call raises, emit is not called.
EmitOne(l, pe, f) ==
    IF f = "io_fail" THEN l
    ELSE LET e == RunEvent(l.seq + 1, pe) IN
         [seq   |-> l.seq + 1,
          file  |-> IF f = "file_fail" THEN l.file ELSE Append(l.file, e),
          redis |-> IF redis_enabled /\ f = "ok" THEN Append(l.redis, e) ELSE l.redis,
          out   |-> IF f = "ok" THEN Append(l.out, e) ELSE l.out]

RECURSIVE EmitAll(_, _)
EmitAll(l, pes) ==
    IF pes = <<>> THEN l ELSE EmitAll(EmitOne(l, Head(pes), Head(pes).f), Tail(pes))

\* the failures of emit itself
EmitFailures == IF redis_enabled THEN {"file_fail", "redis_fail"} ELSE {"file_fail"}

\* How far a handler gets: all its emits (k = Len), or a failure f outside
\* every try at emit k+1, which propagates out of the generator.
Cuts(pes) ==
    {[k |-> Len(pes), f |-> "ok"]}
    \cup {c \in [k : 0..(Len(pes) - 1), f : EmitFailures \cup {"io_fail"}] :
            /\ ~pes[c.k + 1].sw
            /\ pes[c.k + 1].f = "ok"
            /\ (c.f = "io_fail") => pes[c.k + 1].w}

Completed(pes, c) == c.k = Len(pes)

LogAfter(l, pes, c) ==
    IF Completed(pes, c) THEN EmitAll(l, pes)
    ELSE EmitOne(EmitAll(l, SubSeq(pes, 1, c.k)), pes[c.k + 1], c.f)

\* the artifact write before emit k+1 has happened
WroteBefore(pes, c, k) == c.k > k \/ (c.k = k /\ c.f # "io_fail")

\* runner.py:820-843 _split_outline_sections
IsH2(line) == line \in {"H2a", "H2b", "H2c"}

Flush(secs, title, buf) ==
    IF buf # <<>> THEN Append(secs, [title |-> title, body |-> Strip(buf)]) ELSE secs

RECURSIVE SplitFrom(_, _, _, _)
SplitFrom(lines, title, buf, secs) ==
    IF lines = <<>> THEN Flush(secs, title, buf)
    ELSE IF IsH2(Head(lines))
         THEN SplitFrom(Tail(lines), Head(lines), <<Head(lines)>>, Flush(secs, title, buf))
         ELSE SplitFrom(Tail(lines), title, Append(buf, Head(lines)), secs)

SplitOutlineSections(text) ==
    LET secs == SplitFrom(text, "Report", <<>>, <<>>)
    IN IF secs = <<>> THEN <<[title |-> "Report", body |-> text]>> ELSE secs

\* runner.py:780 the outline used when the fallback LLM answers nothing
DefaultOutlineText == <<"H1", "B", "H2a", "L", "B", "H2c", "C0">>

\* runner.py:1097-1104 and 411-418 the minimal shell outline
ShellOutline == [text |-> <<"H1", "B", "H2c", "C0">>, version |-> 1]

\* runner.py:727-782 _generate_outline_fallback, from the LLM's text on
FallbackOutline(raw) ==
    LET m == SearchBlock(raw, "WO_OPEN", "WO_CLOSE")
        outline_text == IF m # NoMatch THEN Strip(m) ELSE Strip(raw)
    IN [text |-> IF outline_text = <<>> THEN DefaultOutlineText ELSE outline_text,
        version |-> 1]

\* mutant: a Terminate is honoured even when no outline exists
GuardTerminateOff(act, o) == act

\* runner.py:929-941 and 179-191: Terminate without an outline becomes a
\* search for the original query
GuardTerminate(act, o) ==
    IF act.kind = "terminate" /\ o.version = 0 THEN SearchAction(<<OrigQuery>>) ELSE act

\* list[:n]
Take(s, n) == SubSeq(s, 1, IF Len(s) < n THEN Len(s) ELSE n)

\* the emits of one planner step (runner.py:912-977, 162-222)
PlannerEvents(raised, act, new_outline) ==
    <<P("planner_step")>> \o
    (CASE raised -> <<>>
       [] ~raised /\ act.kind = "terminate" -> <<P("planner_terminate")>>
       [] ~raised /\ act.kind = "write_outline" ->
            <<[P("outline_updated") EXCEPT !.v = new_outline.version, !.w = TRUE]>>
       [] OTHER -> <<>>)

\* the emits for the selected URLs of one query, sync (runner.py:1025-1072):
\* done = bank records added for earlier URLs of this query
RECURSIVE UrlEventsSync(_, _)
UrlEventsSync(outs, done) ==
    IF outs = <<>> THEN <<>>
    ELSE LET o == Head(outs)
             sel == [P("url_selected") EXCEPT !.adds = done]
             added == [P("evidence_added") EXCEPT !.sw = TRUE, !.adds = done + 1]
         IN CASE o = "added" ->
                   <<sel, added>> \o UrlEventsSync(Tail(outs), done + 1)
              [] o \in {"added_file_fail", "added_redis_fail"} ->
                   <<sel,
                     [added EXCEPT !.f = IF o = "added_file_fail" THEN "file_fail" ELSE "redis_fail"],
                     [P("error") EXCEPT !.adds = done + 1]>>
                   \o UrlEventsSync(Tail(outs), done + 1)
              [] o = "error" ->
                   <<sel, [P("error") EXCEPT !.adds = done]>> \o UrlEventsSync(Tail(outs), done)
              [] OTHER -> <<sel>> \o UrlEventsSync(Tail(outs), done)

IsAdded(o) == o \in {"added", "added_file_fail", "added_redis_fail"}

RECURSIVE CountAdded(_)
CountAdded(outs) ==
    IF outs = <<>> THEN 0
    ELSE (IF IsAdded(Head(outs)) THEN 1 ELSE 0) + CountAdded(Tail(outs))

\* the emits for the selected URLs of one query, async (runner.py:362-380):
\* every task has finished, total = bank records they added
RECURSIVE UrlEventsAsync(_, _)
UrlEventsAsync(outs, total) ==
    IF outs = <<>> THEN <<>>
    ELSE LET o == Head(outs)
             sel == [P("url_selected") EXCEPT !.adds = total]
         IN CASE o = "added" ->
                   <<sel, [P("evidence_added") EXCEPT !.adds = total]>>
                   \o UrlEventsAsync(Tail(outs), total)
              [] o = "error" ->
                   <<sel, [P("error") EXCEPT !.adds = total]>> \o UrlEventsAsync(Tail(outs), total)
              [] OTHER -> <<sel>> \o UrlEventsAsync(Tail(outs), total)

\* the emits of one search query (runner.py:969-1072, 221-380)
SearchEvents(m, q, search_failed, filter_raised, outs) ==
    <<[P("search_query") EXCEPT !.q = q]>>
    \o (IF search_failed THEN <<P("error")>> ELSE <<>>)
    \o <<P("search_results")>>
    \o (IF filter_raised THEN <<P("error")>> ELSE <<>>)
    \o (IF m = "sync" THEN UrlEventsSync(outs, 0) ELSE UrlEventsAsync(outs, CountAdded(outs)))

\* mutant: the shell outline is installed without an event
FallbackEventsSilentShell(how) ==
    CASE how = "llm" -> <<[P("outline_updated") EXCEPT !.v = 1, !.sw = TRUE, !.w = TRUE]>>
      [] how \in {"llm_raise", "write_fail"} -> <<>>
      [] how = "emit_file_fail" ->
            <<[P("outline_updated") EXCEPT !.v = 1, !.sw = TRUE, !.w = TRUE, !.f = "file_fail"]>>
      [] OTHER ->
            <<[P("outline_updated") EXCEPT !.v = 1, !.sw = TRUE, !.w = TRUE, !.f = "redis_fail"]>>

\* the emits of the outline fallback (runner.py:1079-1110, 388-424): how =
\* "llm" the fallback outline is written and announced, "llm_raise" the LLM
\* call raises, "write_fail" writing outline.md raises, "emit_*" the emit raises
FallbackEvents(how) ==
    LET first == [P("outline_updated") EXCEPT !.v = 1, !.sw = TRUE, !.w = TRUE]
        shell == [P("outline_updated") EXCEPT !.v = ShellOutline.version, !.w = TRUE]
    IN CASE how = "llm" -> <<first>>
         [] how \in {"llm_raise", "write_fail"} -> <<shell>>
         [] how = "emit_file_fail" -> <<[first EXCEPT !.f = "file_fail"], shell>>
         [] OTHER -> <<[first EXCEPT !.f = "redis_fail"], shell>>

\* the emits of the outline judgement (runner.py:1113-1143, 427-460)
JudgeEvents(how) ==
    LET result == [P("outline_judge_result") EXCEPT !.sw = TRUE]
    IN CASE how = "result" -> <<result>>
         [] how = "error" -> <<P("error")>>
         [] how = "emit_file_fail" -> <<[result EXCEPT !.f = "file_fail"], P("error")>>
         [] OTHER -> <<[result EXCEPT !.f = "redis_fail"], P("error")>>

\* the emits of one writer step (runner.py:1166-1288, 487-624)
WriterEvents(how) ==
    <<P("writer_step")>> \o
    (CASE how = "raise" -> <<P("error")>>
       [] how = "retrieve" -> <<P("writer_retrieve_query"), P("writer_retrieve_results")>>
       [] how = "retrieve_error" ->
            <<P("writer_retrieve_query"), P("error"), P("writer_retrieve_results")>>
       [] how = "write" -> <<P("writer_write")>>
       [] OTHER -> <<P("writer_terminate")>>)

-----------------------------------------------------------------------------
(* The writer's retrieval: memory/evidence_bank.py (bulk_get,               *)
(* retrieve_scored), runner.py (_prune_retrieved, _format_tool_response)    *)
(* and agents/writer.py (_render_references).  An evidence of the writer's  *)
(* bank is [id, words, size]: id n stands for ev_000n, words are the tokens *)
(* of its searchable text, size is len(summary) plus the lengths of its     *)
(* items in units of 100 characters.                                        *)

\* runner.py:708 approx += 200
PruneOverhead == 2

\* config.py:72 the smallest writer_tool_response_max_chars (1000)
ToolResponseMaxChars == 10

\* evidence_bank.py:225-231 _score: the number of query tokens found
Score(tokens, ev) == Cardinality(tokens \cap ev.words)

\* list.sort(key=score, reverse=True) is stable: x goes behind every entry
\* whose score is at least its own
\* mutant: an unstable sort, x goes before the entries of its own score
RECURSIVE InsertByScoreUnstable(_, _)
InsertByScoreUnstable(sorted, x) ==
    IF sorted = <<>> THEN <<x>>
    ELSE IF Head(sorted).score > x.score
         THEN <<Head(sorted)>> \o InsertByScoreUnstable(Tail(sorted), x)
         ELSE <<x>> \o sorted

RECURSIVE InsertByScore(_, _)
InsertByScore(sorted, x) ==
    IF sorted = <<>> THEN <<x>>
    ELSE IF Head(sorted).score >= x.score
         THEN <<Head(sorted)>> \o InsertByScore(Tail(sorted), x)
         ELSE <<x>> \o sorted

RECURSIVE SortByScore(_, _)
SortByScore(pairs, sorted) ==
    IF pairs = <<>> THEN sorted
    ELSE SortByScore(Tail(pairs), InsertByScore(sorted, Head(pairs)))

\* evidence_bank.py:174-188: the evidences with a positive score, bank order
RECURSIVE ScoredFrom(_, _)
ScoredFrom(bank, tokens) ==
    IF bank = <<>> THEN <<>>
    ELSE (IF Score(tokens, Head(bank)) <= 0 THEN <<>>
          ELSE <<[ev |-> Head(bank), score |-> Score(tokens, Head(bank))]>>)
         \o ScoredFrom(Tail(bank), tokens)

\* EvidenceBank.retrieve_scored
RetrieveScored(bank, tokens, top_k) ==
    IF tokens = {} THEN <<>>
    ELSE Take(SortByScore(ScoredFrom(bank, tokens), <<>>), top_k)

\* EvidenceBank.bulk_get: in the order asked, missing ids skipped
RECURSIVE BulkGet(_, _)
BulkGet(bank, ids) ==
    IF ids = <<>> THEN <<>>
    ELSE (IF Head(ids) \in 1..Len(bank) THEN <<bank[Head(ids)]>> ELSE <<>>)
         \o BulkGet(bank, Tail(ids))

\* mutant: nothing is dropped
DropUsedNever(pairs, used) == pairs

\* runner.py:1218-1220, 1226-1230: drop what is already used
RECURSIVE DropUsed(_, _)
DropUsed(pairs, used) ==
    IF pairs = <<>> THEN <<>>
    ELSE (IF Head(pairs).ev.id \in used THEN <<>> ELSE <<Head(pairs)>>)
         \o DropUsed(Tail(pairs), used)

RECURSIVE WithScoreOne(_)
WithScoreOne(evs) ==
    IF evs = <<>> THEN <<>>
    ELSE <<[ev |-> Head(evs), score |-> 1]>> \o WithScoreOne(Tail(evs))

\* runner.py:688-722 the loop of _prune_retrieved: the id is remembered, then
\* the budget is checked and the loop breaks on the first evidence over it
RECURSIVE PruneFrom(_, _, _, _)
PruneFrom(pairs, out, ids, budget) ==
    IF pairs = <<>> THEN [out |-> out, ids |-> ids]
    ELSE LET ev == Head(pairs).ev
             approx == ev.size + PruneOverhead
         IN IF ev.id \in ids THEN PruneFrom(Tail(pairs), out, ids, budget)
            ELSE IF budget - approx <= 0 THEN [out |-> out, ids |-> ids \cup {ev.id}]
            ELSE PruneFrom(Tail(pairs), Append(out, ev), ids \cup {ev.id}, budget - approx)

\* runner.py:672-724 _prune_retrieved
PruneRetrieved(pairs, max_evidences, max_chars) ==
    PruneFrom(Take(pairs, max_evidences), <<>>, {}, max_chars)

RECURSIVE IdsOf(_)
IdsOf(evs) == IF evs = <<>> THEN <<>> ELSE <<Head(evs).id>> \o IdsOf(Tail(evs))

NoToolResponse == <<"NONE">>

\* runner.py:1259
NoNewEvidence == <<"TR_OPEN", "M_OPEN", "NO_NEW_EVIDENCE", "M_CLOSE", "TR_CLOSE">>

\* the ids as they are printed
IdTexts(ids) == [k \in 1..Len(ids) |-> DigitStr[ids[k] + 1]]

\* runner.py:652-669 _format_tool_response: one entry per evidence
FormatToolResponse(evs) ==
    <<"TR_OPEN", "M_OPEN">> \o IdTexts(IdsOf(evs)) \o <<"M_CLOSE", "TR_CLOSE">>

\* mutant: no placeholder, an empty string when nothing is left
ToolResponseForNoPlaceholder(pruned) ==
    IF pruned # <<>> THEN FormatToolResponse(pruned) ELSE <<>>

\* runner.py:1253-1259
ToolResponseFor(pruned) ==
    IF pruned # <<>> THEN FormatToolResponse(pruned) ELSE NoNewEvidence

\* sorted(used_ids)
RECURSIVE Sorted(_)
Sorted(S) ==
    IF S = {} THEN <<>>
    ELSE LET m == CHOOSE x \in S : \A y \in S : x <= y
         IN <<m>> \o Sorted(S \ {m})

\* mutant: the last id of the bank is taken for unknown
RECURSIVE RenderReferencesOffByOne(_, _)
RenderReferencesOffByOne(ids, bank) ==
    IF ids = <<>> THEN <<>>
    ELSE (IF Head(ids) \in 1..(Len(bank) - 1) THEN <<Head(ids)>> ELSE <<>>)
         \o RenderReferencesOffByOne(Tail(ids), bank)

\* writer.py:262-271 _render_references: the ids of the entries, in order
RECURSIVE RenderReferences(_, _)
RenderReferences(ids, bank) ==
    IF ids = <<>> THEN <<>>
    ELSE (IF Head(ids) \in 1..Len(bank) THEN <<Head(ids)>> ELSE <<>>)
         \o RenderReferences(Tail(ids), bank)

NoRetrieve ==
    [op |-> "none", lexical |-> FALSE, tokens |-> {}, top_k |-> 0, used_before |-> {},
     result |-> <<>>, raised |-> FALSE, cits |-> <<>>]

WriterIdle ==
    /\ wbank = <<>>
    /\ wsections = <<>>
    /\ used_ids = {}
    /\ wsec = 0
    /\ wstep = 0
    /\ tool_response = NoToolResponse
    /\ given = [after_retrieve |-> FALSE, tr |-> NoToolResponse]
    /\ wlast = NoRetrieve
    /\ surfaced = {}
    /\ resurfaced = FALSE
    /\ wpc = "idle"
    /\ refs = <<>>

UrlsIdle ==
    /\ umode = "sync"
    /\ provider = "duckduckgo"
    /\ failing_attempts = 0
    /\ qpc = "idle"
    /\ qevents = <<>>
    /\ selected = <<>>
    /\ finished = <<>>
    /\ url_results = <<>>
    /\ uevents = <<>>
    /\ emitted = 0

PairIdle == runs = <<>>

NotReplayed == [op |-> "none", raised |-> FALSE, events |-> <<>>, mirror_read |-> FALSE,
                local |-> TRUE]

ReplayIdle == replayed = NotReplayed

TavilyIdle == tavily = <<>>

BreakerIdle == breaker = <<>>

LimiterIdle == limiter = <<>>

CitesIdle == cites = <<>>

WParseIdle == wparse = <<>>

UFilterIdle == ufilter = <<>>

ProvResIdle == provres = <<>>

LaterIdle == WParseIdle /\ UFilterIdle /\ ProvResIdle

AuxIdle == ReplayIdle /\ TavilyIdle /\ BreakerIdle /\ LimiterIdle /\ CitesIdle /\ LaterIdle

-----------------------------------------------------------------------------
(* EvidenceBank used by one caller at a time *)

NoCall == [op |-> "none", url |-> <<>>, raw |-> <<>>, summary |-> <<>>,
           outcome |-> "none", dedup |-> FALSE, ret |-> NoEv]

NoSnapshot == [evidences |-> <<>>, map |-> EmptyMap, next_id |-> 0]

BankInit ==
    /\ evidences = <<>>
    /\ content_hash_to_id = EmptyMap
    /\ next_id = 1
    /\ jsonl = <<>>
    /\ raw_files = {}
    /\ bank_alive = TRUE
    /\ reopened = FALSE
    /\ n_adds = 0
    /\ last = NoCall
    /\ first_ret = [k \in {} |-> NoEv]
    /\ pre = NoSnapshot
    /\ had_failure = FALSE

ConcIdle ==
    /\ tpc = <<>>
    /\ targ = <<>>
    /\ tloc = <<>>

\* what the first returned add with these (url, raw_text) gave
RememberFirst(hist, url, raw, ev) ==
    IF raw # <<>> /\ <<url, raw>> \notin DOMAIN hist
    THEN [k \in DOMAIN hist \cup {<<url, raw>>} |->
             IF k = <<url, raw>> THEN ev ELSE hist[k]]
    ELSE hist

\* EvidenceBank.add; io tells which file operation of this call fails, if any
Add(query, url, summary, raw, io) ==
    /\ bank_alive
    /\ n_adds < MaxAdds
    /\ n_adds' = n_adds + 1
    /\ LET h == IF raw # <<>> THEN HashContent(url, raw) ELSE NoHash
           existing == IF raw # <<>> THEN ExistingId(content_hash_to_id, h) ELSE NoId
           id == FormatEvidenceId(next_id)
           ref == IF raw # <<>> THEN RawTextRef(h) ELSE <<>>
           ev == MakeEvidence(id, query, url, summary, ref, h)
       IN IF existing # NoId
          THEN \* dedup hit: return self._evidences[existing_id]
               /\ io = "ok"
               /\ last' = [op |-> "add", url |-> url, raw |-> raw, summary |-> summary,
                           outcome |-> "returned", dedup |-> TRUE,
                           ret |-> DictGet(evidences, existing)]
               /\ first_ret' = RememberFirst(first_ret, url, raw, DictGet(evidences, existing))
               /\ UNCHANGED <<evidences, content_hash_to_id, next_id, jsonl, raw_files,
                              had_failure>>
          ELSE IF io = "raw_fail"
          THEN \* _store_raw_text raises before anything is allocated
               /\ raw # <<>>
               /\ last' = [op |-> "add", url |-> url, raw |-> raw, summary |-> summary,
                           outcome |-> "raised_raw", dedup |-> FALSE, ret |-> NoEv]
               /\ had_failure' = TRUE
               /\ UNCHANGED <<evidences, content_hash_to_id, next_id, jsonl, raw_files,
                              first_ret>>
          ELSE /\ raw_files' = IF raw # <<>> THEN raw_files \cup {[name |-> ref, text |-> raw]}
                               ELSE raw_files
               /\ next_id' = NextIdAfter(next_id)
               /\ evidences' = DictPut(evidences, ev)
               /\ content_hash_to_id' = IF h # NoHash THEN MapPut(content_hash_to_id, h, id)
                                        ELSE content_hash_to_id
               /\ IF io = "append_fail"
                  THEN \* _append_jsonl raises after the maps were updated
                       /\ jsonl' = jsonl
                       /\ last' = [op |-> "add", url |-> url, raw |-> raw,
                                   summary |-> summary, outcome |-> "raised_append",
                                   dedup |-> FALSE, ret |-> NoEv]
                       /\ had_failure' = TRUE
                       /\ first_ret' = first_ret
                  ELSE /\ jsonl' = jsonl \o DumpLine(ev)
                       /\ last' = [op |-> "add", url |-> url, raw |-> raw,
                                   summary |-> summary, outcome |-> "returned",
                                   dedup |-> FALSE, ret |-> ev]
                       /\ had_failure' = had_failure
                       /\ first_ret' = RememberFirst(first_ret, url, raw, ev)
    /\ UNCHANGED <<bank_alive, reopened, pre>>
    /\ UNCHANGED <<concVars, parseVars, runVars, writerVars, pairVars, auxVars>>

AddCall ==
    \E q \in Queries, u \in Urls, s \in Summaries, r \in RawTexts,
       io \in {"ok", "raw_fail", "append_fail"} :
        Add(q, u, s, r, io) /\ UNCHANGED urlVars

\* EvidenceBank(root_dir) built again on the same directory
Reopen ==
    /\ bank_alive
    /\ ~reopened
    /\ last.op = "add"
    /\ LET st == LoadExisting(jsonl) IN
        /\ pre' = [evidences |-> evidences, map |-> content_hash_to_id, next_id |-> next_id]
        /\ bank_alive' = st.ok
        /\ evidences' = st.evidences
        /\ content_hash_to_id' = st.map
        /\ next_id' = st.next_id
    /\ reopened' = TRUE
    /\ last' = [NoCall EXCEPT !.op = "reopen"]
    /\ first_ret' = [k \in {} |-> NoEv]
    /\ UNCHANGED <<jsonl, raw_files, n_adds, had_failure>>
    /\ UNCHANGED <<concVars, parseVars, runVars, writerVars, urlVars, pairVars, auxVars>>

InitBank == BankInit /\ ConcIdle /\ ParseIdle /\ RunIdle /\ WriterIdle /\ UrlsIdle /\ PairIdle /\ AuxIdle

NextBank == AddCall \/ Reopen

SpecBank == InitBank /\ [][NextBank]_vars

-----------------------------------------------------------------------------
(* EvidenceBank.add called from several worker threads at once.  The async  *)
(* runner hands every add to asyncio.to_thread (runner.py:333-341) and runs *)
(* the per-URL tasks of one query under asyncio.gather (runner.py:362);     *)
(* add takes no lock, so threads interleave between its statements.         *)

Tasks == 1..NumTasks

TaskSummary(t) == <<"s", DigitStr[t + 1]>>

NoLocals == [h |-> NoHash, id |-> NoId, tmp |-> 0, ret |-> NoEv]

InitConc ==
    /\ BankInit
    /\ ParseIdle
    /\ RunIdle
    /\ WriterIdle
    /\ UrlsIdle
    /\ PairIdle
    /\ AuxIdle
    /\ tpc = [t \in Tasks |-> "lookup"]
    /\ targ \in [Tasks -> [url : Urls, raw : RawTexts]]
    /\ tloc = [t \in Tasks |-> NoLocals]

seqCallVars == <<bank_alive, reopened, n_adds, last, first_ret, pre, had_failure>>

\* evidence_bank.py:105-112: hash, lookup, early return on a dedup hit
TaskLookup(t) ==
    /\ tpc[t] = "lookup"
    /\ LET raw == targ[t].raw
           h == IF raw # <<>> THEN HashContent(targ[t].url, raw) ELSE NoHash
           existing == IF raw # <<>> THEN ExistingId(content_hash_to_id, h) ELSE NoId
       IN IF existing # NoId
          THEN /\ tloc' = [tloc EXCEPT ![t].h = h, ![t].ret = DictGet(evidences, existing)]
               /\ tpc' = [tpc EXCEPT ![t] = "done"]
          ELSE /\ tloc' = [tloc EXCEPT ![t].h = h]
               /\ tpc' = [tpc EXCEPT ![t] = "store"]
    /\ UNCHANGED <<evidences, content_hash_to_id, next_id, jsonl, raw_files, targ, seqCallVars, parseVars, runVars, writerVars, urlVars, pairVars, auxVars>>

\* evidence_bank.py:114: _store_raw_text
TaskStoreRaw(t) ==
    /\ tpc[t] = "store"
    /\ raw_files' = IF targ[t].raw # <<>>
                    THEN raw_files \cup {[name |-> RawTextRef(tloc[t].h), text |-> targ[t].raw]}
                    ELSE raw_files
    /\ tpc' = [tpc EXCEPT ![t] = "format"]
    /\ UNCHANGED <<evidences, content_hash_to_id, next_id, jsonl, targ, tloc, seqCallVars, parseVars, runVars, writerVars, urlVars, pairVars, auxVars>>

\* evidence_bank.py:116: evidence_id = format_evidence_id(self._next_id)
TaskFormatId(t) ==
    /\ tpc[t] = "format"
    /\ tloc' = [tloc EXCEPT ![t].id = FormatEvidenceId(next_id)]
    /\ tpc' = [tpc EXCEPT ![t] = "read"]
    /\ UNCHANGED <<evidences, content_hash_to_id, next_id, jsonl, raw_files, targ, seqCallVars, parseVars, runVars, writerVars, urlVars, pairVars, auxVars>>

\* evidence_bank.py:117: self._next_id += 1, the load
TaskReadCounter(t) ==
    /\ tpc[t] = "read"
    /\ tloc' = [tloc EXCEPT ![t].tmp = next_id]
    /\ tpc' = [tpc EXCEPT ![t] = "write"]
    /\ UNCHANGED <<evidences, content_hash_to_id, next_id, jsonl, raw_files, targ, seqCallVars, parseVars, runVars, writerVars, urlVars, pairVars, auxVars>>

\* evidence_bank.py:117: self._next_id += 1, the store
TaskWriteCounter(t) ==
    /\ tpc[t] = "write"
    /\ next_id' = NextIdAfter(tloc[t].tmp)
    /\ tpc' = [tpc EXCEPT ![t] = "put"]
    /\ UNCHANGED <<evidences, content_hash_to_id, jsonl, raw_files, targ, tloc, seqCallVars, parseVars, runVars, writerVars, urlVars, pairVars, auxVars>>

TaskEvidence(t) ==
    MakeEvidence(tloc[t].id, <<"q">>, targ[t].url, TaskSummary(t),
                 IF targ[t].raw # <<>> THEN RawTextRef(tloc[t].h) ELSE <<>>, tloc[t].h)

\* evidence_bank.py:119-132: build the record, update both maps
TaskPut(t) ==
    /\ tpc[t] = "put"
    /\ evidences' = DictPut(evidences, TaskEvidence(t))
    /\ content_hash_to_id' = IF tloc[t].h # NoHash
                             THEN MapPut(content_hash_to_id, tloc[t].h, tloc[t].id)
                             ELSE content_hash_to_id
    /\ tpc' = [tpc EXCEPT ![t] = "append"]
    /\ UNCHANGED <<next_id, jsonl, raw_files, targ, tloc, seqCallVars, parseVars, runVars, writerVars, urlVars, pairVars, auxVars>>

\* evidence_bank.py:134-135: _append_jsonl and return
TaskAppend(t) ==
    /\ tpc[t] = "append"
    /\ jsonl' = jsonl \o DumpLine(TaskEvidence(t))
    /\ tloc' = [tloc EXCEPT ![t].ret = TaskEvidence(t)]
    /\ tpc' = [tpc EXCEPT ![t] = "done"]
    /\ UNCHANGED <<evidences, content_hash_to_id, next_id, raw_files, targ, seqCallVars, parseVars, runVars, writerVars, urlVars, pairVars, auxVars>>

NextConc ==
    \/ \E t \in Tasks : TaskLookup(t)
    \/ \E t \in Tasks : TaskStoreRaw(t)
    \/ \E t \in Tasks : TaskFormatId(t)
    \/ \E t \in Tasks : TaskReadCounter(t)
    \/ \E t \in Tasks : TaskWriteCounter(t)
    \/ \E t \in Tasks : TaskPut(t)
    \/ \E t \in Tasks : TaskAppend(t)

SpecConc == InitConc /\ [][NextConc]_vars

-----------------------------------------------------------------------------
(* The planner's parser applied to one LLM output *)

OutputAlphabet ==
    {"WO_OPEN", "WO_CLOSE", "T_OPEN", "T_CLOSE", "TC_OPEN", "TC_CLOSE", "J_SEARCH1", "a", "SP"}

InitParse ==
    /\ BankInit
    /\ ConcIdle
    /\ RunIdle
    /\ WriterIdle
    /\ UrlsIdle
    /\ PairIdle
    /\ AuxIdle
    /\ raw_out \in SeqsUpTo(OutputAlphabet, MaxOutputLen)
    /\ parsed = FALSE
    /\ action = NoAction

\* planner.py:64-66: the LLM's text goes through _parse_action
ParseStep ==
    /\ ~parsed
    /\ action' = PlannerParseAction(raw_out)
    /\ parsed' = TRUE
    /\ UNCHANGED <<raw_out, bankVars, concVars, runVars, writerVars, urlVars, pairVars, auxVars>>

NextParse == ParseStep

SpecParse == InitParse /\ [][NextParse]_vars

-----------------------------------------------------------------------------
(* tools/url_filter.py UrlFilter.select_urls (SpecUrlFilter).  The results  *)
(* given are those of one provider call: their ranks grow along the list    *)
(* and may have gaps.  The LLM's answer is text without a JSON object       *)
(* ("unparseable"), JSON that UrlFilterDecision rejects ("invalid"), or     *)
(* JSON with a list of ranks.                                               *)

FilterMaxRank == 4
FilterMaxUrls == 2
FilterMaxAnswer == 3

\* the result lists of a provider call: ranks in growing order
FilterResults ==
    {s \in SeqsUpTo(1..FilterMaxRank, FilterMaxRank) :
        \A k \in 1..(Len(s) - 1) : s[k] < s[k + 1]}

FilterAnswers ==
    {[kind |-> "unparseable", ranks |-> <<>>], [kind |-> "invalid", ranks |-> <<>>]}
    \cup [kind : {"ranks"}, ranks : SeqsUpTo(0..(FilterMaxRank + 1), FilterMaxAnswer)]

\* url_filter.py:108-118: the ranks of the decision, [] when parsing failed
ParseDecision(answer) == IF answer.kind = "ranks" THEN answer.ranks ELSE <<>>

\* url_filter.py:73-78: the results named by the ranks, in the ranks' order
RECURSIVE SelectByRanks(_, _)
SelectByRanks(results, ranks) ==
    IF ranks = <<>> THEN <<>>
    ELSE (IF \E k \in 1..Len(results) : results[k] = Head(ranks)
          THEN <<Head(ranks)>> ELSE <<>>)
         \o SelectByRanks(results, Tail(ranks))

\* mutant: without the fallback for a selection that names no result
SelectUrlsNoFallback(results, max_urls, answer) ==
    IF results = <<>> THEN <<>>
    ELSE IF Len(results) <= max_urls THEN results
    ELSE IF ParseDecision(answer) = <<>> THEN Take(results, max_urls)
    ELSE Take(SelectByRanks(results, ParseDecision(answer)), max_urls)

\* UrlFilter.select_urls (url_filter.py:54-81); a result is written by its rank
SelectUrls(results, max_urls, answer) ==
    IF results = <<>> THEN <<>>
    ELSE IF Len(results) <= max_urls THEN results
    ELSE IF ParseDecision(answer) = <<>> THEN Take(results, max_urls)
    ELSE IF SelectByRanks(results, ParseDecision(answer)) = <<>> THEN Take(results, max_urls)
    ELSE Take(SelectByRanks(results, ParseDecision(answer)), max_urls)

-----------------------------------------------------------------------------
(* One run of run_research_stream (mode "sync") or run_research_stream_async *)
(* (mode "async").  A handler is one action; its outcome (what the LLM, the  *)
(* search provider, the pages and the recorders do) is chosen with \E.       *)
(* The run is followed for its first MaxSeq emits.                           *)

Log == [seq |-> seq, file |-> events, redis |-> redis_log, out |-> yielded]

SetLog(l) ==
    /\ seq' = l.seq
    /\ events' = l.file
    /\ redis_log' = l.redis
    /\ yielded' = l.out

LLMRaises == <<"RAISE">>

\* what the planner LLM may answer: an outline, a terminate, a tool call with
\* two queries, nothing
PlannerOutputs ==
    { <<"WO_OPEN", "H2a", "L", "WO_CLOSE">>,
      <<"T_OPEN", "a", "T_CLOSE">>,
      <<"TC_OPEN", "J_SEARCH2", "TC_CLOSE">>,
      <<>> }

\* what the fallback LLM may answer
FallbackOutputs == { <<"WO_OPEN", "H2b", "L", "WO_CLOSE">>, <<>> }

otherVars == <<bankVars, concVars, parseVars, writerVars, urlVars, pairVars, auxVars>>

InitRun ==
    /\ BankInit
    /\ ConcIdle
    /\ ParseIdle
    /\ WriterIdle
    /\ UrlsIdle
    /\ PairIdle
    /\ AuxIdle
    /\ mode \in {"sync", "async"}
    /\ redis_enabled \in BOOLEAN
    /\ rpc = "init"
    /\ step_idx = 0
    /\ outline = NoOutline
    /\ outline_md = Absent
    /\ report_written = FALSE
    /\ seq = 0
    /\ events = <<>>
    /\ redis_log = <<>>
    /\ yielded = <<>>
    /\ pending = <<>>
    /\ sections = <<>>
    /\ sec_idx = 0
    /\ step_in_section = 0
    /\ ev_count = 0
    /\ early_terms = {}
    /\ planner_wrote = FALSE

\* runner.py:889-904, 137-154
RunStart ==
    /\ rpc = "init"
    /\ LET pes == <<P("run_started")>>
       IN \E c \in Cuts(pes) :
            /\ SetLog(LogAfter(Log, pes, c))
            /\ rpc' = IF Completed(pes, c) THEN "planner" ELSE "crashed"
    /\ UNCHANGED <<mode, redis_enabled, step_idx, outline, outline_md, report_written,
                   pending, sections, sec_idx, step_in_section, ev_count, early_terms,
                   planner_wrote, otherVars>>

LoopNext(i) == IF i + 1 < PlannerMaxSteps THEN "planner" ELSE "after_planner"

\* runner.py:906-967, 156-220: one iteration of the planner loop up to the
\* dispatch of its action; planner.step stands outside every try, so an
\* exception of the LLM call leaves the generator (rpc "raised")
PlannerStep ==
    /\ rpc = "planner"
    /\ step_idx < PlannerMaxSteps
    /\ seq < MaxSeq
    /\ \E out \in PlannerOutputs \cup {LLMRaises} :
         LET raised == out = LLMRaises
             answer == IF raised THEN NoAction ELSE PlannerParseAction(out)
             act == GuardTerminate(answer, outline)
             new_outline == [text |-> act.text, version |-> outline.version + 1]
             pes == PlannerEvents(raised, act, new_outline)
             writes == ~raised /\ act.kind = "write_outline"
         IN \E c \in Cuts(pes) :
              /\ SetLog(LogAfter(Log, pes, c))
              /\ rpc' = CASE ~Completed(pes, c) -> "crashed"
                          [] Completed(pes, c) /\ raised -> "raised"
                          [] Completed(pes, c) /\ ~raised /\ act.kind = "terminate" -> "after_planner"
                          [] Completed(pes, c) /\ writes -> LoopNext(step_idx)
                          [] OTHER -> "search"
              /\ step_idx' = IF Completed(pes, c) /\ writes THEN step_idx + 1 ELSE step_idx
              /\ outline' = IF writes /\ c.k >= 1 THEN new_outline ELSE outline
              /\ outline_md' = IF writes /\ WroteBefore(pes, c, 1) THEN new_outline.text ELSE outline_md
              /\ planner_wrote' = (planner_wrote \/ (writes /\ c.k >= 1))
              /\ pending' = IF Completed(pes, c) /\ ~raised /\ act.kind = "search"
                            THEN Take(act.queries, MaxQueriesPerStep) ELSE pending
              /\ early_terms' = IF c.k >= 1 /\ answer.kind = "terminate" /\ outline.version = 0
                                THEN early_terms \cup {Len(yielded) + 1} ELSE early_terms
    /\ UNCHANGED <<mode, redis_enabled, report_written, sections, sec_idx, step_in_section,
                   ev_count, otherVars>>

\* what processing one selected URL may come to
UrlOutcomes ==
    IF mode = "sync"
    THEN {"added", "not_relevant", "error", "added_file_fail"}
         \cup (IF redis_enabled THEN {"added_redis_fail"} ELSE {})
    ELSE {"added", "not_relevant", "error"}

\* the result lists of one search: ranks 1..n, up to one more than may be kept
RunResults == {[k \in 1..n |-> k] : n \in 0..(MaxUrlsPerQuery + 1)}

\* the answers of the URL filter's LLM: no JSON, the last rank, all ranks backwards
RunAnswers ==
    {[kind |-> "unparseable", ranks |-> <<>>],
     [kind |-> "ranks", ranks |-> <<MaxUrlsPerQuery + 1>>],
     [kind |-> "ranks", ranks |-> [k \in 1..(MaxUrlsPerQuery + 1) |-> MaxUrlsPerQuery + 2 - k]]}

\* mutant: every result of the search is kept
SelectedAll(results, filter_raised, answer) == results

\* runner.py:1007-1019, 278-292: the URLs kept for one query
Selected(results, filter_raised, answer) ==
    IF filter_raised THEN Take(results, MaxUrlsPerQuery)
    ELSE SelectUrls(results, MaxUrlsPerQuery, answer)

\* how many URLs one query may come to: a failed search has no results, and
\* the filter raises only where it calls its LLM (more results than max_urls)
SelectedLens(search_failed, filter_raised) ==
    {Len(Selected(results, filter_raised, answer)) :
        results \in {r \in RunResults : (search_failed => r = <<>>)
                                       /\ (filter_raised => Len(r) > MaxUrlsPerQuery)},
        answer \in RunAnswers}

\* runner.py:969-1074, 221-382: one query of a search action
SearchQuery ==
    /\ rpc = "search"
    /\ pending # <<>>
    /\ seq < MaxSeq
    /\ \E search_failed \in BOOLEAN, filter_raised \in BOOLEAN,
          outs \in SeqsUpTo(UrlOutcomes, MaxUrlsPerQuery + 1) :
         /\ search_failed => ~filter_raised
         /\ Len(outs) \in SelectedLens(search_failed, filter_raised)
         /\ LET pes == SearchEvents(mode, Head(pending), search_failed, filter_raised, outs)
                last_query == Tail(pending) = <<>>
            IN \E c \in Cuts(pes) :
                 /\ SetLog(LogAfter(Log, pes, c))
                 /\ ev_count' = ev_count + (IF Completed(pes, c) THEN CountAdded(outs)
                                            ELSE pes[c.k + 1].adds)
                 /\ rpc' = IF ~Completed(pes, c) THEN "crashed"
                           ELSE IF last_query THEN LoopNext(step_idx) ELSE "search"
                 /\ pending' = IF Completed(pes, c) THEN Tail(pending) ELSE pending
                 /\ step_idx' = IF Completed(pes, c) /\ last_query THEN step_idx + 1 ELSE step_idx
    /\ UNCHANGED <<mode, redis_enabled, outline, outline_md, report_written, sections,
                   sec_idx, step_in_section, early_terms, planner_wrote, otherVars>>

\* runner.py:1079 (sync): with an outline from the planner the generator ends
\* here; runner.py:388 (async): the run goes on to the judgement
OutlinePresent ==
    /\ rpc = "after_planner"
    /\ outline.version > 0
    /\ rpc' = IF mode = "sync" THEN "done" ELSE "judge"
    /\ UNCHANGED <<mode, redis_enabled, step_idx, outline, outline_md, report_written, seq,
                   events, redis_log, yielded, pending, sections, sec_idx, step_in_section,
                   ev_count, early_terms, planner_wrote, otherVars>>

FallbackHows ==
    {"llm", "llm_raise", "write_fail", "emit_file_fail"}
    \cup (IF redis_enabled THEN {"emit_redis_fail"} ELSE {})

\* runner.py:1079-1110, 388-424: no outline after the planner loop
OutlineFallback ==
    /\ rpc = "after_planner"
    /\ outline.version = 0
    /\ seq < MaxSeq
    /\ \E how \in FallbackHows, raw \in FallbackOutputs :
         LET pes == FallbackEvents(how)
             llm_outline == FallbackOutline(raw)
             llm_written == how \in {"llm", "emit_file_fail", "emit_redis_fail"}
         IN \E c \in Cuts(pes) :
              /\ SetLog(LogAfter(Log, pes, c))
              /\ outline' = IF how = "llm" THEN llm_outline ELSE ShellOutline
              /\ outline_md' = IF how # "llm" /\ c.f # "io_fail" THEN ShellOutline.text
                               ELSE IF llm_written THEN llm_outline.text
                               ELSE outline_md
              /\ rpc' = IF Completed(pes, c) THEN "judge" ELSE "crashed"
    /\ UNCHANGED <<mode, redis_enabled, step_idx, report_written, pending, sections, sec_idx,
                   step_in_section, ev_count, early_terms, planner_wrote, otherVars>>

JudgeHows ==
    {"result", "error", "emit_file_fail"}
    \cup (IF redis_enabled THEN {"emit_redis_fail"} ELSE {})

\* runner.py:1113-1151, 427-470: the outline judgement and the split of the
\* outline into sections
OutlineJudge ==
    /\ rpc = "judge"
    /\ seq < MaxSeq
    /\ \E how \in JudgeHows :
         LET pes == JudgeEvents(how)
         IN \E c \in Cuts(pes) :
              /\ SetLog(LogAfter(Log, pes, c))
              /\ rpc' = IF Completed(pes, c) THEN "section" ELSE "crashed"
              /\ sections' = IF Completed(pes, c) THEN SplitOutlineSections(outline.text)
                             ELSE sections
              /\ sec_idx' = IF Completed(pes, c) THEN 1 ELSE sec_idx
    /\ UNCHANGED <<mode, redis_enabled, step_idx, outline, outline_md, report_written,
                   pending, step_in_section, ev_count, early_terms, planner_wrote, otherVars>>

\* runner.py:1153-1163, 472-484
SectionStart ==
    /\ rpc = "section"
    /\ sec_idx <= Len(sections)
    /\ seq < MaxSeq
    /\ LET pes == <<P("writer_section_start")>>
       IN \E c \in Cuts(pes) :
            /\ SetLog(LogAfter(Log, pes, c))
            /\ rpc' = IF Completed(pes, c) THEN "wstep" ELSE "crashed"
    /\ step_in_section' = 0
    /\ UNCHANGED <<mode, redis_enabled, step_idx, outline, outline_md, report_written,
                   pending, sections, sec_idx, ev_count, early_terms, planner_wrote, otherVars>>

\* runner.py:1165-1288, 486-624: one step of the writer on the current section
WriterStep ==
    /\ rpc = "wstep"
    /\ step_in_section < WriterMaxStepsPerSection
    /\ seq < MaxSeq
    /\ \E how \in {"raise", "retrieve", "retrieve_error", "write", "terminate"} :
         LET pes == WriterEvents(how)
             goes_on == how \in {"retrieve", "retrieve_error", "write"}
         IN \E c \in Cuts(pes) :
              /\ SetLog(LogAfter(Log, pes, c))
              /\ rpc' = IF ~Completed(pes, c) THEN "crashed"
                        ELSE IF goes_on /\ step_in_section + 1 < WriterMaxStepsPerSection
                             THEN "wstep" ELSE "section_done"
              /\ step_in_section' = IF Completed(pes, c) /\ goes_on
                                    THEN step_in_section + 1 ELSE step_in_section
    /\ UNCHANGED <<mode, redis_enabled, step_idx, outline, outline_md, report_written,
                   pending, sections, sec_idx, ev_count, early_terms, planner_wrote, otherVars>>

\* runner.py:1290-1295, 626-632
SectionDone ==
    /\ rpc = "section_done"
    /\ seq < MaxSeq
    /\ LET pes == <<P("writer_section_done")>>
       IN \E c \in Cuts(pes) :
            /\ SetLog(LogAfter(Log, pes, c))
            /\ rpc' = IF ~Completed(pes, c) THEN "crashed"
                      ELSE IF sec_idx + 1 <= Len(sections) THEN "section" ELSE "report"
            /\ sec_idx' = IF Completed(pes, c) THEN sec_idx + 1 ELSE sec_idx
    /\ UNCHANGED <<mode, redis_enabled, step_idx, outline, outline_md, report_written,
                   pending, sections, step_in_section, ev_count, early_terms, planner_wrote,
                   otherVars>>

\* runner.py:1297-1312, 634-649: references, report.md, report_done
WriteReport ==
    /\ rpc = "report"
    /\ seq < MaxSeq
    /\ LET pes == <<[P("report_done") EXCEPT !.w = TRUE]>>
       IN \E c \in Cuts(pes) :
            /\ SetLog(LogAfter(Log, pes, c))
            /\ report_written' = WroteBefore(pes, c, 0)
            /\ rpc' = IF Completed(pes, c) THEN "done" ELSE "crashed"
    /\ UNCHANGED <<mode, redis_enabled, step_idx, outline, outline_md, pending, sections,
                   sec_idx, step_in_section, ev_count, early_terms, planner_wrote, otherVars>>

NextRun ==
    \/ RunStart
    \/ PlannerStep
    \/ SearchQuery
    \/ OutlinePresent
    \/ OutlineFallback
    \/ OutlineJudge
    \/ SectionStart
    \/ WriterStep
    \/ SectionDone
    \/ WriteReport

SpecRun == InitRun /\ [][NextRun]_vars

-----------------------------------------------------------------------------
(* The writer loop of one run over a filled evidence bank: sections, steps, *)
(* retrieves and the references (runner.py:1145-1301 and 462-638, the same  *)
(* statements in both modes).                                               *)

\* what an evidence of the bank may look like
EvidenceKinds ==
    { [words |-> {"aa"}, size |-> 1],
      [words |-> {"aa", "bb"}, size |-> 1],
      [words |-> {"aa", "bb"}, size |-> 8],
      [words |-> {"cc"}, size |-> 1] }

\* the queries of the writer's Retrieve actions
WriterQueries == {{"aa"}, {"aa", "bb"}}

\* the citation_ids of a Retrieve action; <<>> stands for None or []
CitationChoices == {<<>>, <<2, 1>>, <<3, 1, 1>>}

\* the citation ids of the outline's sections
SectionChoices == { <<[cits |-> <<>>], [cits |-> <<>>]>>, <<[cits |-> <<>>], [cits |-> <<2, 1>>]>> }

exceptWriter == <<bankVars, concVars, parseVars, runVars, urlVars, pairVars, auxVars>>

InitWriter ==
    /\ BankInit
    /\ ConcIdle
    /\ ParseIdle
    /\ RunIdle
    /\ UrlsIdle
    /\ PairIdle
    /\ AuxIdle
    /\ \E kinds \in [1..WriterBankSize -> EvidenceKinds] :
         wbank = [i \in 1..WriterBankSize |->
                    [id |-> i, words |-> kinds[i].words, size |-> kinds[i].size]]
    /\ wsections \in SectionChoices
    /\ used_ids = {}
    /\ wsec = 1
    /\ wstep = 0
    /\ tool_response = NoToolResponse
    /\ given = [after_retrieve |-> FALSE, tr |-> NoToolResponse]
    /\ wlast = NoRetrieve
    /\ surfaced = {}
    /\ resurfaced = FALSE
    /\ wpc = "step"
    /\ refs = <<>>

\* writer.step is called with the current tool response (runner.py:1176-1183)
Given == [after_retrieve |-> wlast.op = "retrieve", tr |-> tool_response]

InSection ==
    /\ wpc = "step"
    /\ wstep < WriterSteps

AfterContinue == IF wstep + 1 < WriterSteps THEN "step" ELSE "section_done"

HasRepeat(s) == \E i, j \in 1..Len(s) : i < j /\ s[i] = s[j]

Range(s) == {s[i] : i \in 1..Len(s)}

\* mutant: when every id asked for is used or missing, the query is tried
CandidatesQueryWhenNoneLeft(cits, sec_cits, tokens, top_k) ==
    LET target_ids == IF cits # <<>> THEN cits ELSE sec_cits
        by_id == Take(DropUsed(WithScoreOne(BulkGet(wbank, target_ids)), used_ids), top_k)
    IN IF target_ids # <<>> /\ by_id # <<>>
       THEN by_id
       ELSE DropUsed(RetrieveScored(wbank, tokens, top_k), used_ids)

\* runner.py:1209-1231: the candidates of a Retrieve action
Candidates(cits, sec_cits, tokens, top_k) ==
    LET target_ids == IF cits # <<>> THEN cits ELSE sec_cits
    IN IF target_ids # <<>>
       THEN Take(DropUsed(WithScoreOne(BulkGet(wbank, target_ids)), used_ids), top_k)
       ELSE DropUsed(RetrieveScored(wbank, tokens, top_k), used_ids)

\* runner.py:1197-1269, 522-605: a step whose action is Retrieve
WriterRetrieve ==
    /\ InSection
    /\ \E tokens \in WriterQueries, top_k \in 1..MaxTopK, cits \in CitationChoices,
          raised \in BOOLEAN :
         \* a retrieval that raises ends the same way for every input
         /\ raised => (tokens = {"aa"} /\ top_k = 1 /\ cits = <<>>)
         /\ LET sec_cits == wsections[wsec].cits
                pr == IF raised THEN [out |-> <<>>, ids |-> {}]
                      ELSE PruneRetrieved(Candidates(cits, sec_cits, tokens, top_k),
                                          WriterSectionMaxEvidences, ToolResponseMaxChars)
            IN /\ given' = Given
               /\ used_ids' = used_ids \cup pr.ids
               /\ tool_response' = ToolResponseFor(pr.out)
               /\ wlast' = [op |-> "retrieve",
                            lexical |-> cits = <<>> /\ sec_cits = <<>>,
                            tokens |-> tokens, top_k |-> top_k, used_before |-> used_ids,
                            result |-> IdsOf(pr.out), raised |-> raised, cits |-> cits]
               /\ surfaced' = surfaced \cup Range(IdsOf(pr.out))
               /\ resurfaced' = (resurfaced \/ HasRepeat(IdsOf(pr.out))
                                 \/ Range(IdsOf(pr.out)) \cap surfaced # {})
    /\ wstep' = wstep + 1
    /\ wpc' = AfterContinue
    /\ UNCHANGED <<wbank, wsections, wsec, refs, exceptWriter>>

\* runner.py:1271-1280, 607-616: a step whose action is Write
WriterWrite ==
    /\ InSection
    /\ given' = Given
    /\ wlast' = [NoRetrieve EXCEPT !.op = "write"]
    /\ wstep' = wstep + 1
    /\ wpc' = AfterContinue
    /\ UNCHANGED <<wbank, wsections, used_ids, wsec, tool_response, surfaced, resurfaced,
                   refs, exceptWriter>>

\* runner.py:1184-1195 and 1282-1288: writer.step raises, or the action is
\* Terminate: the section's loop breaks
WriterBreak ==
    /\ InSection
    /\ given' = Given
    /\ wlast' = [NoRetrieve EXCEPT !.op = "break"]
    /\ wpc' = "section_done"
    /\ UNCHANGED <<wbank, wsections, used_ids, wsec, wstep, tool_response, surfaced,
                   resurfaced, refs, exceptWriter>>

\* runner.py:1290-1295 and 1153-1163: the section is closed; the next one
\* starts with no tool response
WriterNextSection ==
    /\ wpc = "section_done"
    /\ wsec' = wsec + 1
    /\ wstep' = 0
    /\ tool_response' = NoToolResponse
    /\ wlast' = NoRetrieve
    /\ wpc' = IF wsec + 1 <= Len(wsections) THEN "step" ELSE "report"
    /\ UNCHANGED <<wbank, wsections, used_ids, given, surfaced, resurfaced, refs, exceptWriter>>

\* runner.py:1297-1301, 634-638: the references of the report
WriterReferences ==
    /\ wpc = "report"
    /\ refs' = RenderReferences(Sorted(used_ids), wbank)
    /\ wpc' = "done"
    /\ UNCHANGED <<wbank, wsections, used_ids, wsec, wstep, tool_response, given, wlast,
                   surfaced, resurfaced, exceptWriter>>

NextWriter ==
    \/ WriterRetrieve
    \/ WriterWrite
    \/ WriterBreak
    \/ WriterNextSection
    \/ WriterReferences

SpecWriter == InitWriter /\ [][NextWriter]_vars

-----------------------------------------------------------------------------
(* One query of a search action over the evidence bank above: the provider  *)
(* call (tools/web_search.py, runner.py:969-1005 and 221-275), then the     *)
(* selected URLs, runner.py:1025-1072 (sync, one URL after the other) and   *)
(* 303-380 (async, one task per URL, asyncio.gather, then the events).      *)

\* the largest number of selected URLs followed
GatherUrls == 3

\* settings.tavily_max_retries
TavilyMaxRetries == 1

\* TavilySearchProvider.search (web_search.py:78-196): up to max_retries + 1
\* requests, TavilySearchError when all of them failed
TavilySearch(failing, n) ==
    IF failing > TavilyMaxRetries THEN [raised |-> TRUE, results |-> 0]
    ELSE [raised |-> FALSE, results |-> n]

\* DuckDuckGoSearchProvider.search (web_search.py:205-240): one request, an
\* exception of it is logged and [] returned
DuckDuckGoSearch(failing, n) ==
    IF failing > 0 THEN [raised |-> FALSE, results |-> 0]
    ELSE [raised |-> FALSE, results |-> n]

\* search_provider.search of the provider get_search_provider built
ProviderSearch(p, failing, n) ==
    IF p = "tavily" THEN TavilySearch(failing, n) ELSE DuckDuckGoSearch(failing, n)

QueryEvent(ct, n) == [ct |-> ct, q |-> <<"q">>, n |-> n]

\* runner.py:970-1005 and 222-272: the events of the query itself; results
\* = [] after an exception
QueryEvents(res) ==
    <<QueryEvent("search_query", 0)>>
    \o (IF res.raised THEN <<QueryEvent("error", 0)>> ELSE <<>>)
    \o <<QueryEvent("search_results", IF res.raised THEN 0 ELSE res.results)>>

UrlNames == <<"u1", "u2", "u3", "u4", "u5">>

SelectedUrl(i) == <<UrlNames[i]>>

\* what the work on one selected URL comes to: "error" = fetch, parse,
\* summarize or extract raises; "store_raw_fail" and "store_append_fail" =
\* evidence_bank.add raises in _store_raw_text or in _append_jsonl
PageOutcomes == {"added", "not_relevant", "error", "store_raw_fail", "store_append_fail"}

AddOutcome(o) ==
    CASE o = "store_raw_fail" -> "raw_fail"
      [] o = "store_append_fail" -> "append_fail"
      [] OTHER -> "ok"

NoData == [evidence_id |-> NoId, url |-> <<>>]

\* (url_str, evidence_data, error) of a task that has not returned
NoResult == [url |-> <<>>, data |-> NoData, error |-> FALSE]

\* mutant: the results are taken as the tasks complete
GatherResultsAsCompleted(results, order) == [k \in 1..Len(order) |-> results[order[k]]]

\* asyncio.gather: the results in the order of the awaitables passed
GatherResults(results, order) == [k \in 1..Len(order) |-> results[k]]

UrlEvent(ct, url, id) == [ct |-> ct, url |-> url, evidence_id |-> id]

\* runner.py:365-380 (and 1026, 1049-1067): the events of one URL
ResultEvents(r) ==
    <<UrlEvent("url_selected", r.url, NoId)>>
    \o (IF r.error THEN <<UrlEvent("error", r.url, NoId)>>
        ELSE IF r.data # NoData
             THEN <<UrlEvent("evidence_added", r.data.url, r.data.evidence_id)>>
             ELSE <<>>)

InitUrls ==
    /\ BankInit
    /\ ConcIdle
    /\ ParseIdle
    /\ RunIdle
    /\ WriterIdle
    /\ PairIdle
    /\ AuxIdle
    /\ umode \in {"sync", "async"}
    /\ provider \in {"tavily", "duckduckgo"}
    /\ failing_attempts \in 0..(TavilyMaxRetries + 1)
    /\ qpc = "search"
    /\ qevents = <<>>
    /\ selected = <<>>
    /\ url_results = <<>>
    /\ finished = <<>>
    /\ uevents = <<>>
    /\ emitted = 0

\* runner.py:969-1024 and 221-300: the provider is asked, the query's events
\* are emitted and the URLs are selected (n results, all of them selected)
QuerySearch ==
    /\ qpc = "search"
    /\ \E n \in 0..GatherUrls : \E outs \in [1..n -> PageOutcomes] :
         LET res == ProviderSearch(provider, failing_attempts, n)
             found == IF res.raised THEN 0 ELSE res.results
         IN /\ n = 0 \/ found = n
            /\ qevents' = QueryEvents(res)
            /\ selected' = [i \in 1..found |->
                              [url |-> SelectedUrl(i), outcome |-> outs[i]]]
            /\ url_results' = [i \in 1..found |-> NoResult]
    /\ qpc' = "urls"
    /\ UNCHANGED <<umode, provider, failing_attempts, finished, uevents, emitted>>
    /\ UNCHANGED <<bankVars, concVars, parseVars, runVars, writerVars, pairVars, auxVars>>

\* runner.py:303-360 process_single_url, and the try of 1027-1072
ProcessSingleUrl(i) ==
    LET s == selected[i]
        failed == [url |-> s.url, data |-> NoData, error |-> TRUE]
    IN /\ IF s.outcome \in {"error", "not_relevant"}
          THEN /\ url_results' = [url_results EXCEPT
                                    ![i] = [failed EXCEPT !.error = s.outcome = "error"]]
               /\ UNCHANGED bankVars
          ELSE /\ Add(<<"q">>, s.url, <<"s", "NL", "t">>, <<"h">>, AddOutcome(s.outcome))
               /\ url_results' = [url_results EXCEPT
                                    ![i] = IF last'.outcome = "returned"
                                           THEN [url |-> s.url,
                                                 data |-> [evidence_id |-> last'.ret.evidence_id,
                                                           url |-> last'.ret.url],
                                                 error |-> FALSE]
                                           ELSE failed]
       /\ finished' = Append(finished, i)
       /\ UNCHANGED <<concVars, parseVars, runVars, writerVars, pairVars, auxVars>>

\* one task of the gather runs to its end (async)
UrlTask ==
    /\ qpc = "urls"
    /\ umode = "async"
    /\ \E i \in 1..Len(selected) :
         /\ i \notin Range(finished)
         /\ ProcessSingleUrl(i)
    /\ UNCHANGED <<umode, provider, failing_attempts, qpc, qevents, selected, uevents, emitted>>

\* runner.py:362-380: after the gather, the events of the next result
UrlEmit ==
    /\ qpc = "urls"
    /\ umode = "async"
    /\ Len(finished) = Len(selected)
    /\ emitted < Len(selected)
    /\ uevents' = uevents \o ResultEvents(GatherResults(url_results, finished)[emitted + 1])
    /\ emitted' = emitted + 1
    /\ UNCHANGED <<umode, provider, failing_attempts, qpc, qevents, selected, finished,
                   url_results>>
    /\ UNCHANGED <<bankVars, concVars, parseVars, runVars, writerVars, pairVars, auxVars>>

\* runner.py:1025-1072: one iteration of the sync loop over the selected URLs
UrlSync ==
    /\ qpc = "urls"
    /\ umode = "sync"
    /\ emitted < Len(selected)
    /\ ProcessSingleUrl(emitted + 1)
    /\ uevents' = uevents \o ResultEvents(url_results'[emitted + 1])
    /\ emitted' = emitted + 1
    /\ UNCHANGED <<umode, provider, failing_attempts, qpc, qevents, selected>>

NextUrls ==
    \/ QuerySearch
    \/ UrlTask
    \/ UrlEmit
    \/ UrlSync

SpecUrls == InitUrls /\ [][NextUrls]_vars

-----------------------------------------------------------------------------
(* run_research_stream and run_research_stream_async side by side, every    *)
(* external response (LLM output, search result, fetched page) given to     *)
(* both.  No recorder or file failure is followed here.  A runner is the    *)
(* record of its position, its loop variables, the content types it has     *)
(* emitted and the two artifacts.                                           *)

NewRunner ==
    [pc |-> "init", step_idx |-> 0, outline |-> NoOutline, outline_md |-> Absent,
     pending |-> <<>>, sections |-> <<>>, sec_idx |-> 0, step_in_section |-> 0,
     draft |-> <<>>, report_md |-> Absent, types |-> <<>>]

Types(pes) == [k \in 1..Len(pes) |-> pes[k].ct]

Emitted(r, pes) == [r EXCEPT !.types = r.types \o Types(pes)]

\* one response, for the handler standing at position pc
NoResponse(pc) ==
    [for |-> pc, out |-> <<>>, search_failed |-> FALSE, filter_raised |-> FALSE,
     outs |-> <<>>, how |-> "", raw |-> <<>>]

\* what the outside may answer to the handler at pc
PairResponses(pc) ==
    CASE pc = "planner" ->
           {[NoResponse(pc) EXCEPT !.out = o] : o \in PlannerOutputs \cup {LLMRaises}}
      [] pc = "search" ->
           {[NoResponse(pc) EXCEPT !.search_failed = x[1], !.filter_raised = x[2], !.outs = x[3]] :
              x \in {y \in BOOLEAN \X BOOLEAN
                             \X SeqsUpTo({"added", "not_relevant", "error"}, MaxUrlsPerQuery) :
                       /\ y[1] => (y[3] = <<>> /\ ~y[2])
                       /\ y[2] => Len(y[3]) = MaxUrlsPerQuery}}
      [] pc = "after_planner" ->
           {[NoResponse(pc) EXCEPT !.how = x[1], !.raw = x[2]] :
              x \in {"llm", "llm_raise"} \X FallbackOutputs}
      [] pc = "judge" ->
           {[NoResponse(pc) EXCEPT !.how = h] : h \in {"result", "error"}}
      [] pc = "wstep" ->
           {[NoResponse(pc) EXCEPT !.how = h] :
              h \in {"raise", "retrieve", "retrieve_error", "write", "terminate"}}
      [] OTHER -> {NoResponse(pc)}

\* runner.py:906-967 and 156-220
StepPlanner(r, resp) ==
    LET raised == resp.out = LLMRaises
        act == GuardTerminate(IF raised THEN NoAction ELSE PlannerParseAction(resp.out),
                              r.outline)
        new_outline == [text |-> act.text, version |-> r.outline.version + 1]
        e == Emitted(r, PlannerEvents(raised, act, new_outline))
    IN CASE raised -> [e EXCEPT !.pc = "raised"]
         [] ~raised /\ act.kind = "terminate" -> [e EXCEPT !.pc = "after_planner"]
         [] ~raised /\ act.kind = "write_outline" ->
              [e EXCEPT !.pc = LoopNext(r.step_idx), !.step_idx = r.step_idx + 1,
                        !.outline = new_outline, !.outline_md = new_outline.text]
         [] OTHER ->
              [e EXCEPT !.pc = "search",
                        !.pending = IF act.kind = "search"
                                    THEN Take(act.queries, MaxQueriesPerStep) ELSE r.pending]

\* runner.py:969-1074 and 221-382
StepSearch(m, r, resp) ==
    LET e == Emitted(r, SearchEvents(m, Head(r.pending), resp.search_failed,
                                     resp.filter_raised, resp.outs))
        last_query == Tail(r.pending) = <<>>
    IN [e EXCEPT !.pending = Tail(r.pending),
                 !.pc = IF last_query THEN LoopNext(r.step_idx) ELSE "search",
                 !.step_idx = IF last_query THEN r.step_idx + 1 ELSE r.step_idx]

\* runner.py:1079-1110 (sync: the judgement, the writer and the report stand
\* inside `if outline is None:`) and 388-424 (async)
StepAfterPlanner(m, r, resp) ==
    IF r.outline.version > 0
    THEN [r EXCEPT !.pc = IF m = "sync" THEN "done" ELSE "judge"]
    ELSE LET o == IF resp.how = "llm" THEN FallbackOutline(resp.raw) ELSE ShellOutline
         IN [Emitted(r, FallbackEvents(resp.how)) EXCEPT
               !.outline = o, !.outline_md = o.text, !.pc = "judge"]

\* runner.py:1113-1312 and 427-649: judgement, sections, writer steps, report
StepWriterPhase(r, resp) ==
    CASE r.pc = "judge" ->
           [Emitted(r, JudgeEvents(resp.how)) EXCEPT
              !.sections = SplitOutlineSections(r.outline.text), !.sec_idx = 1,
              !.pc = "section"]
      [] r.pc = "section" ->
           [Emitted(r, <<P("writer_section_start")>>) EXCEPT
              !.step_in_section = 0, !.pc = "wstep"]
      [] r.pc = "wstep" ->
           LET goes_on == resp.how \in {"retrieve", "retrieve_error", "write"}
           IN [Emitted(r, WriterEvents(resp.how)) EXCEPT
                 !.pc = IF goes_on /\ r.step_in_section + 1 < WriterMaxStepsPerSection
                        THEN "wstep" ELSE "section_done",
                 !.step_in_section = IF goes_on THEN r.step_in_section + 1
                                     ELSE r.step_in_section,
                 !.draft = IF resp.how = "write" THEN Append(r.draft, r.sec_idx)
                           ELSE r.draft]
      [] r.pc = "section_done" ->
           [Emitted(r, <<P("writer_section_done")>>) EXCEPT
              !.pc = IF r.sec_idx + 1 <= Len(r.sections) THEN "section" ELSE "report",
              !.sec_idx = r.sec_idx + 1]
      [] OTHER ->
           [Emitted(r, <<P("report_done")>>) EXCEPT !.report_md = r.draft, !.pc = "done"]

\* the handler of runner m at its position, given the response
StepRun(m, r, resp) ==
    CASE r.pc # resp.for -> r
      [] r.pc = resp.for /\ r.pc = "init" ->
           [Emitted(r, <<P("run_started")>>) EXCEPT !.pc = "planner"]
      [] r.pc = resp.for /\ r.pc = "planner" -> StepPlanner(r, resp)
      [] r.pc = resp.for /\ r.pc = "search" -> StepSearch(m, r, resp)
      [] r.pc = resp.for /\ r.pc = "after_planner" -> StepAfterPlanner(m, r, resp)
      [] OTHER -> StepWriterPhase(r, resp)

Modes == {"sync", "async"}

Ended(r) == r.pc \in {"done", "raised"}

InitPair ==
    /\ BankInit
    /\ ConcIdle
    /\ ParseIdle
    /\ RunIdle
    /\ WriterIdle
    /\ UrlsIdle
    /\ AuxIdle
    /\ runs = [m \in Modes |-> NewRunner]

\* the next response goes to every runner that waits for it; as long as the
\* two runners stand at the same position they get the same responses.  The
\* runners are followed for their first MaxSeq events.
PairStep ==
    /\ \E m \in Modes : ~Ended(runs[m])
    /\ \A m \in Modes : Len(runs[m].types) < MaxSeq
    /\ LET lead == IF ~Ended(runs["async"]) THEN runs["async"].pc ELSE runs["sync"].pc
       IN \E resp \in PairResponses(lead) :
            runs' = [m \in Modes |-> StepRun(m, runs[m], resp)]
    /\ UNCHANGED <<bankVars, concVars, parseVars, runVars, writerVars, urlVars, auxVars>>

NextPair == PairStep

SpecPair == InitPair /\ [][NextPair]_vars

-----------------------------------------------------------------------------
(* orchestrator/runner.py replay_run, recording/file_recorder.py and        *)
(* recording/redis_recorder.py: a run is recorded emit by emit, then        *)
(* replayed (SpecReplay).  The data of an event is a text (a sequence of    *)
(* tokens); events.jsonl is the text FileText(events), the mirror is the    *)
(* list of the lines pushed.                                                *)

MaxRecorded == 3

\* texts an event may carry: queries, titles and reasons as they arrive
ReplayData == { <<>>, <<"a">>, <<"a", "NL", "b">>, <<"a", "LS", "b">> }

ReplayContentTypes == {"search_query", "evidence_added"}

\* json.dumps(event.model_dump(mode="json"), ensure_ascii=False)
DumpEvent(e) ==
    <<"{">> \o Digits(e.seq) \o <<",", e.ct, ",">> \o JsonString(e.q) \o <<",">>
      \o Digits(e.v) \o <<"}">>

\* FileEventRecorder.append, once per recorded event
RECURSIVE FileText(_)
FileText(evs) ==
    IF evs = <<>> THEN <<>>
    ELSE DumpEvent(Head(evs)) \o <<"NL">> \o FileText(Tail(evs))

\* RunEvent.model_validate_json(line): does it accept the line
EventLineIsValid(line) ==
    /\ Len(line) >= 2
    /\ line[1] = "{"
    /\ Last(line) = "}"
    /\ \A i \in 2..(Len(line) - 1) : line[i] \notin {"{", "}"}
    /\ LET f == SplitFieldsFrom(SubSeq(line, 2, Len(line) - 1), <<>>, <<>>)
       IN /\ Len(f) = 4
          /\ IsDigits(f[1]) /\ ParseInt(f[1]) >= 1
          /\ Len(f[2]) = 1
          /\ IsDigits(f[4])

\* RunEvent.model_validate_json(line): the event of a valid line
ParseEventLine(line) ==
    LET f == SplitFieldsFrom(SubSeq(line, 2, Len(line) - 1), <<>>, <<>>)
    IN [seq |-> ParseInt(f[1]), ct |-> f[2][1], q |-> JsonUnstring(f[3]),
        v |-> ParseInt(f[4])]

\* the loop of iter_events and of RedisEventRecorder.iter_events; ok = FALSE
\* when model_validate_json raised
RECURSIVE ValidateLines(_, _)
ValidateLines(lines, st) ==
    IF lines = <<>> \/ ~st.ok THEN st
    ELSE LET line == Strip(Head(lines)) IN
         IF line = <<>> THEN ValidateLines(Tail(lines), st)
         ELSE IF ~EventLineIsValid(line) THEN [st EXCEPT !.ok = FALSE]
         ELSE ValidateLines(Tail(lines),
                            [st EXCEPT !.events = Append(@, ParseEventLine(line))])

\* file_recorder.iter_events(path); exists = FALSE: no such file
IterEvents(exists, text) ==
    IF ~exists THEN [ok |-> TRUE, events |-> <<>>]
    ELSE ValidateLines(SplitLines(text), [ok |-> TRUE, events |-> <<>>])

\* RedisEventRecorder.iter_events(): one item of the list is one line
RedisIterEvents(items) ==
    ValidateLines(items, [ok |-> TRUE, events |-> <<>>])

\* replay_run(run_id, artifacts_dir) as a whole: what the iterator gives.
\* local: the run directory is on this instance; enabled: redis_enabled of the
\* environment; up: the mirror answers.
ReplayRunOf(local, evs, mirror, enabled, up) ==
    LET file_events == IterEvents(local /\ evs # <<>>, FileText(evs))
        items == [i \in 1..Len(mirror) |-> DumpEvent(mirror[i])]
        rr == RedisIterEvents(items)
    IN IF ~file_events.ok
       THEN [op |-> "replay", raised |-> TRUE, events |-> <<>>, mirror_read |-> FALSE,
             local |-> local]
       ELSE IF file_events.events # <<>>
       THEN [op |-> "replay", raised |-> FALSE, events |-> file_events.events,
             mirror_read |-> FALSE, local |-> local]
       ELSE IF enabled
       THEN [op |-> "replay", raised |-> FALSE,
             events |-> IF up /\ rr.ok THEN rr.events ELSE <<>>,
             mirror_read |-> up, local |-> local]
       ELSE [op |-> "replay", raised |-> FALSE, events |-> <<>>, mirror_read |-> FALSE,
             local |-> local]

InitReplay ==
    /\ BankInit /\ ConcIdle /\ ParseIdle /\ WriterIdle /\ UrlsIdle /\ PairIdle
    /\ mode = "sync"
    /\ redis_enabled \in BOOLEAN
    /\ rpc = "recording"
    /\ step_idx = 0
    /\ outline = NoOutline
    /\ outline_md = Absent
    /\ report_written = FALSE
    /\ seq = 0
    /\ events = <<>>
    /\ redis_log = <<>>
    /\ yielded = <<>>
    /\ pending = <<>>
    /\ sections = <<>>
    /\ sec_idx = 0
    /\ step_in_section = 0
    /\ ev_count = 0
    /\ early_terms = {}
    /\ planner_wrote = FALSE
    /\ replayed = NotReplayed
    /\ TavilyIdle /\ BreakerIdle /\ LimiterIdle /\ CitesIdle /\ LaterIdle

replayFrame ==
    <<mode, redis_enabled, step_idx, outline, outline_md, report_written, pending,
      sections, sec_idx, step_in_section, ev_count, early_terms, planner_wrote>>

\* one call of emit during the recorded run; a failure of a recorder is
\* swallowed only where the call stands inside a try (evidence_added)
RecordEmit ==
    /\ rpc = "recording"
    /\ seq < MaxRecorded
    /\ \E ct \in ReplayContentTypes, q \in ReplayData, f \in {"ok"} \cup EmitFailures :
         /\ SetLog(EmitOne(Log, [P(ct) EXCEPT !.q = q], f))
         /\ rpc' = IF f = "ok" \/ ct = "evidence_added" THEN "recording" ELSE "crashed"
    /\ UNCHANGED <<replayFrame, replayed>>
    /\ UNCHANGED <<bankVars, concVars, parseVars, writerVars, urlVars, pairVars>>
    /\ UNCHANGED <<tavily, breaker, limiter, cites, laterVars>>

\* replay_run on the run recorded so far
ReplayRun ==
    /\ rpc \in {"recording", "crashed"}
    /\ \E local \in BOOLEAN, up \in BOOLEAN :
         replayed' = ReplayRunOf(local, events, redis_log, redis_enabled, up)
    /\ rpc' = "replayed"
    /\ UNCHANGED <<replayFrame, seq, events, redis_log, yielded>>
    /\ UNCHANGED <<bankVars, concVars, parseVars, writerVars, urlVars, pairVars>>
    /\ UNCHANGED <<tavily, breaker, limiter, cites, laterVars>>

NextReplay == RecordEmit \/ ReplayRun

SpecReplay == InitReplay /\ [][NextReplay]_vars

-----------------------------------------------------------------------------
(* tools/web_search.py TavilySearchProvider.search, one call followed       *)
(* attempt by attempt (SpecTavily).  Times are in quarters of a second.     *)

TavilyRetriesLimit == 3

\* retry_backoff_s (0.75 s by default) and retry_max_backoff_s
RetryBackoffs == {3}
RetryMaxBackoffs == {8, 32}

TransientStatuses == {429, 500, 502, 503, 504}

NoHint == [present |-> FALSE, s |-> 0]
Hint(s) == [present |-> TRUE, s |-> s]

\* the Retry-After header of a response: absent, 1.25 s, or a negative number
RetryAfterHints == {NoHint, Hint(5), Hint(0 - 1)}

\* what one POST may give: a results list, an error status (with or without
\* a Retry-After header), a timeout, a connection error, a body that is not
\* a JSON object, an object without a results list
Responses ==
    {[kind |-> "ok", status |-> 200, hint |-> NoHint]}
    \cup [kind : {"status"}, status : {429, 503}, hint : RetryAfterHints]
    \cup [kind : {"status"}, status : {500, 502, 504, 401}, hint : {NoHint}]
    \cup [kind : {"timeout", "request_error"}, status : {0}, hint : {NoHint}]
    \cup [kind : {"not_object", "no_results_list"}, status : {200}, hint : {NoHint}]

RECURSIVE Pow2(_)
Pow2(k) == IF k = 0 THEN 1 ELSE 2 * Pow2(k - 1)

Min(a, b) == IF a <= b THEN a ELSE b

\* web_search.py:165: min(retry_max_backoff_s, retry_backoff_s * 2**attempt)
Backoff(cfg, attempt) == Min(cfg.retry_max_backoff_s, cfg.retry_backoff_s * Pow2(attempt))

\* web_search.py:155-163: the Retry-After of the failed response as the code reads it
RetryAfterRead(resp) ==
    IF resp.kind = "status" /\ resp.status = 429 THEN resp.hint ELSE NoHint

\* web_search.py:166
SleepFor(cfg, attempt, resp) ==
    IF RetryAfterRead(resp).present THEN RetryAfterRead(resp).s ELSE Backoff(cfg, attempt)

\* one pass of the loop `for attempt in range(self.max_retries + 1)` with the
\* response resp: return, or break and raise TavilySearchError, or sleep and
\* go on; time.sleep raises ValueError for a negative length
AttemptStep(t, resp) ==
    LET attempt == Len(t.log)
        sleep_s == SleepFor(t.cfg, attempt, resp)
    IN IF resp.kind = "ok"
       THEN [t EXCEPT !.pc = "returned",
                      !.log = Append(@, [resp |-> resp, slept |-> FALSE, sleep_s |-> 0])]
       ELSE IF ~(attempt < t.cfg.max_retries)
       THEN [t EXCEPT !.pc = "search_error",
                      !.log = Append(@, [resp |-> resp, slept |-> FALSE, sleep_s |-> 0])]
       ELSE IF sleep_s < 0
       THEN [t EXCEPT !.pc = "value_error",
                      !.log = Append(@, [resp |-> resp, slept |-> FALSE, sleep_s |-> 0])]
       ELSE [t EXCEPT !.log = Append(@, [resp |-> resp, slept |-> TRUE, sleep_s |-> sleep_s])]

TavilyConfigs ==
    [max_retries : 0..TavilyRetriesLimit, retry_backoff_s : RetryBackoffs,
     retry_max_backoff_s : RetryMaxBackoffs]

InitTavily ==
    /\ BankInit /\ ConcIdle /\ ParseIdle /\ RunIdle /\ WriterIdle /\ UrlsIdle /\ PairIdle
    /\ ReplayIdle /\ BreakerIdle /\ LimiterIdle /\ CitesIdle /\ LaterIdle
    /\ \E cfg \in TavilyConfigs : tavily = [cfg |-> cfg, pc |-> "calling", log |-> <<>>]

TavilyAttempt ==
    /\ tavily.pc = "calling"
    /\ \E resp \in Responses : tavily' = AttemptStep(tavily, resp)
    /\ UNCHANGED <<bankVars, concVars, parseVars, runVars, writerVars, urlVars, pairVars>>
    /\ UNCHANGED <<replayed, breaker, limiter, cites, laterVars>>

NextTavily == TavilyAttempt

SpecTavily == InitTavily /\ [][NextTavily]_vars

-----------------------------------------------------------------------------
(* core/concurrency.py CircuitBreaker with concurrent callers on one event  *)
(* loop (SpecBreaker).  A coroutine gives way to the others only at an      *)
(* await that suspends: the three `async with self._lock` blocks hold no    *)
(* such await, so each of them is one step, and the gate of call runs on    *)
(* into the start of func.  Time is the loop's clock in whole units; it is  *)
(* positive; last_failure_time = 0 stands for None.                         *)

BreakerCallers == 2
BreakerMaxTime == 4
BreakerThresholdMax == 2
BreakerTimeoutMax == 2

Callers == 1..BreakerCallers

BreakerConfigs ==
    [failure_threshold : 1..BreakerThresholdMax, recovery_timeout : 1..BreakerTimeoutMax]

\* CircuitBreaker.__init__
NewBreaker(cfg, t0) ==
    [cfg |-> cfg, state |-> "closed", failure_count |-> 0, last_failure_time |-> 0,
     now |-> t0, pc |-> [c \in Callers |-> "idle"], invoked |-> 0,
     last |-> [op |-> "none", caller |-> 0]]

\* concurrency.py:193-203: does the gate raise CircuitBreakerOpenError
GateRejects(b) ==
    /\ b.state = "open"
    /\ b.last_failure_time # 0
    /\ ~(b.now - b.last_failure_time >= b.cfg.recovery_timeout)

\* concurrency.py:193-203: the state after the gate
GateState(b) ==
    IF /\ b.state = "open"
       /\ b.last_failure_time # 0
       /\ b.now - b.last_failure_time >= b.cfg.recovery_timeout
    THEN "half_open" ELSE b.state

\* mutant: a success closes the breaker whatever its state
OnSuccessAlwaysCloses(b) ==
    [b EXCEPT !.state = "closed", !.failure_count = 0]

\* concurrency.py:211-215
OnSuccess(b) ==
    IF b.state = "half_open"
    THEN [b EXCEPT !.state = "closed", !.failure_count = 0]
    ELSE b

\* concurrency.py:219-234
OnFailure(b) ==
    [b EXCEPT !.failure_count = @ + 1,
              !.last_failure_time = b.now,
              !.state = IF b.failure_count + 1 >= b.cfg.failure_threshold
                        THEN "open" ELSE @]

InitBreaker ==
    /\ BankInit /\ ConcIdle /\ ParseIdle /\ RunIdle /\ WriterIdle /\ UrlsIdle /\ PairIdle
    /\ ReplayIdle /\ TavilyIdle /\ LimiterIdle /\ CitesIdle /\ LaterIdle
    /\ \E cfg \in BreakerConfigs : breaker = NewBreaker(cfg, 1)

breakerFrame ==
    <<bankVars, concVars, parseVars, runVars, writerVars, urlVars, pairVars,
      replayed, tavily, limiter, cites, laterVars>>

\* caller c enters call: the gate, then func is started or the call raises
CallEnter(c) ==
    /\ breaker.pc[c] = "idle"
    /\ breaker' =
         IF GateRejects(breaker)
         THEN [breaker EXCEPT !.last = [op |-> "rejected", caller |-> c]]
         ELSE [breaker EXCEPT !.state = GateState(breaker),
                              !.pc[c] = "running",
                              !.invoked = (@ + 1) % 2,
                              !.last = [op |-> "enter", caller |-> c]]
    /\ UNCHANGED breakerFrame

\* func of caller c returns
CallSucceeds(c) ==
    /\ breaker.pc[c] = "running"
    /\ breaker' = [OnSuccess(breaker) EXCEPT !.pc[c] = "idle",
                                             !.last = [op |-> "success", caller |-> c]]
    /\ UNCHANGED breakerFrame

\* func of caller c raises an expected exception
CallFails(c) ==
    /\ breaker.pc[c] = "running"
    /\ breaker' = [OnFailure(breaker) EXCEPT !.pc[c] = "idle",
                                             !.last = [op |-> "failure", caller |-> c]]
    /\ UNCHANGED breakerFrame

\* the task of caller c is cancelled inside func: CancelledError is not an
\* Exception, no handler of call runs
CallCancelled(c) ==
    /\ breaker.pc[c] = "running"
    /\ breaker' = [breaker EXCEPT !.pc[c] = "idle",
                                  !.last = [op |-> "cancelled", caller |-> c]]
    /\ UNCHANGED breakerFrame

BreakerTick ==
    /\ breaker.now < BreakerMaxTime
    /\ breaker' = [breaker EXCEPT !.now = @ + 1, !.last = [op |-> "tick", caller |-> 0]]
    /\ UNCHANGED breakerFrame

NextBreaker ==
    \/ \E c \in Callers : CallEnter(c)
    \/ \E c \in Callers : CallSucceeds(c)
    \/ \E c \in Callers : CallFails(c)
    \/ \E c \in Callers : CallCancelled(c)
    \/ BreakerTick

SpecBreaker == InitBreaker /\ [][NextBreaker]_vars

-----------------------------------------------------------------------------
(* core/async_client.py RateLimiter with concurrent callers on one event    *)
(* loop (SpecLimiter).  One unit of time is the time that refills one       *)
(* token; the model keeps the time elapsed since last_refill (no more than  *)
(* fills the bucket) and the rest of the running sleep, not the clock.      *)

LimiterMaxTokens == 2
LimiterCallers == 2

LCallers == 1..LimiterCallers

\* RateLimiter.__post_init__: the bucket starts full
NewLimiter(max_tokens) ==
    [max_tokens |-> max_tokens, bucket |-> max_tokens, elapsed |-> 0,
     holder |-> 0, waiters |-> <<>>, sleep_left |-> 0,
     pc |-> [c \in LCallers |-> "idle"], need |-> [c \in LCallers |-> 0]]

\* async_client.py:40-43 and 48-51: the bucket after a refill
Refilled(l) == Min(l.max_tokens, l.bucket + l.elapsed)

\* async_client.py:45: while self.bucket < tokens, after a refill
LoopGoesOn(l, c) == Refilled(l) < l.need[c]

\* async_client.py:40-53 from a refill to the next suspension or to the
\* return: caller c holds the lock, refills, then sleeps for
\* (tokens - bucket) / refill_rate or deducts its tokens and releases
AfterRefill(l, c) ==
    IF LoopGoesOn(l, c)
    THEN [l EXCEPT !.bucket = Refilled(l), !.elapsed = 0, !.holder = c,
                   !.pc[c] = "sleeping", !.sleep_left = l.need[c] - Refilled(l)]
    ELSE [l EXCEPT !.bucket = Refilled(l) - l.need[c], !.elapsed = 0, !.holder = 0,
                   !.pc[c] = "done"]

InitLimiter ==
    /\ BankInit /\ ConcIdle /\ ParseIdle /\ RunIdle /\ WriterIdle /\ UrlsIdle /\ PairIdle
    /\ ReplayIdle /\ TavilyIdle /\ BreakerIdle /\ CitesIdle /\ LaterIdle
    /\ \E m \in 1..LimiterMaxTokens : limiter = NewLimiter(m)

limiterFrame ==
    <<bankVars, concVars, parseVars, runVars, writerVars, urlVars, pairVars,
      replayed, tavily, breaker, cites, laterVars>>

\* caller c calls acquire(n), for the first time or again: with the lock
\* free it runs on to its first suspension, otherwise it queues for the lock
LimiterCall(c) ==
    /\ limiter.pc[c] \in {"idle", "done"}
    /\ \E n \in 1..(limiter.max_tokens + 1) :
         LET l == [limiter EXCEPT !.need[c] = n] IN
         limiter' = IF l.holder = 0 /\ l.waiters = <<>>
                    THEN AfterRefill(l, c)
                    ELSE [l EXCEPT !.pc[c] = "waiting", !.waiters = Append(@, c)]
    /\ UNCHANGED limiterFrame

\* the lock was released: its first waiter takes it
LimiterLocked(c) ==
    /\ limiter.pc[c] = "waiting"
    /\ limiter.holder = 0
    /\ limiter.waiters # <<>> /\ Head(limiter.waiters) = c
    /\ limiter' = AfterRefill([limiter EXCEPT !.waiters = Tail(@)], c)
    /\ UNCHANGED limiterFrame

\* asyncio.sleep(wait_time) of the lock holder is over
LimiterWakes(c) ==
    /\ limiter.pc[c] = "sleeping"
    /\ limiter.sleep_left = 0
    /\ limiter' = AfterRefill(limiter, c)
    /\ UNCHANGED limiterFrame

\* one unit of time passes
LimiterTick ==
    /\ limiter' = [limiter EXCEPT !.elapsed = Min(limiter.max_tokens, @ + 1),
                                  !.sleep_left = IF @ > 0 THEN @ - 1 ELSE 0]
    /\ UNCHANGED limiterFrame

NextLimiter ==
    \/ \E c \in LCallers : LimiterCall(c)
    \/ \E c \in LCallers : LimiterLocked(c)
    \/ \E c \in LCallers : LimiterWakes(c)
    \/ LimiterTick

\* time advances, and the event loop runs every coroutine that can run
SpecLimiter ==
    /\ InitLimiter
    /\ [][NextLimiter]_vars
    /\ WF_vars(LimiterTick)
    /\ \A c \in LCallers : WF_vars(LimiterLocked(c)) /\ WF_vars(LimiterWakes(c))

-----------------------------------------------------------------------------
(* utils/citations.py extract_citation_ids (SpecCites).  A text is a        *)
(* sequence of tokens: "OPEN" is <citation>, "CLOSE" is </citation>, ","    *)
(* the comma, "SP" a blank, and the other tokens are words without "<".     *)

CiteMaxLen == 6

CiteTokens == {"OPEN", "CLOSE", ",", "SP", "x", "y"}

CiteTexts == UNION {[1..n -> CiteTokens] : n \in 0..CiteMaxLen}

\* [^<]: a token that holds no "<"
NotLt(tok) == tok \notin {"OPEN", "CLOSE"}

\* (?P<ids>[^<]+) from position j on, greedy: the end of the longest run
RECURSIVE RunEnd(_, _)
RunEnd(text, j) ==
    IF j <= Len(text) /\ NotLt(text[j]) THEN RunEnd(text, j + 1) ELSE j - 1

\* _CITATION_RE.finditer(text): the ids groups of the matches, left to right
RECURSIVE FindIterFrom(_, _, _)
FindIterFrom(text, i, out) ==
    IF i > Len(text) THEN out
    ELSE LET e == RunEnd(text, i + 1) IN
         IF /\ text[i] = "OPEN"
            /\ e >= i + 1
            /\ e + 1 <= Len(text)
            /\ text[e + 1] = "CLOSE"
         THEN FindIterFrom(text, e + 2, Append(out, SubSeq(text, i + 1, e)))
         ELSE FindIterFrom(text, i + 1, out)

\* citations.py:23: [p.strip() for p in raw.split(",") if p.strip()]
CitationParts(raw) ==
    LET ps == SplitFieldsFrom(raw, <<>>, <<>>)
        stripped == [k \in 1..Len(ps) |-> Strip(ps[k])]
    IN SelectSeq(stripped, LAMBDA p : p # <<>>)

\* citations.py:21-24: ids.extend(parts) for every match
RECURSIVE ExtendAll(_, _)
ExtendAll(raws, ids) ==
    IF raws = <<>> THEN ids
    ELSE ExtendAll(Tail(raws), ids \o CitationParts(Head(raws)))

\* mutant: nothing is dropped
DedupNever(ids, seen, out) == ids

\* citations.py:26-31: de-duplicate while keeping order
RECURSIVE Dedup(_, _, _)
Dedup(ids, seen, out) ==
    IF ids = <<>> THEN out
    ELSE IF Head(ids) \in seen THEN Dedup(Tail(ids), seen, out)
    ELSE Dedup(Tail(ids), seen \cup {Head(ids)}, Append(out, Head(ids)))

\* extract_citation_ids(text)
ExtractCitationIds(text) ==
    Dedup(ExtendAll(FindIterFrom(text, 1, <<>>), <<>>), {}, <<>>)

InitCites ==
    /\ BankInit /\ ConcIdle /\ ParseIdle /\ RunIdle /\ WriterIdle /\ UrlsIdle /\ PairIdle
    /\ ReplayIdle /\ TavilyIdle /\ BreakerIdle /\ LimiterIdle /\ LaterIdle
    /\ \E text \in CiteTexts : cites = [text |-> text, pc |-> "given", out |-> <<>>]

ExtractCitations ==
    /\ cites.pc = "given"
    /\ cites' = [cites EXCEPT !.pc = "extracted", !.out = ExtractCitationIds(cites.text)]
    /\ UNCHANGED <<bankVars, concVars, parseVars, runVars, writerVars, urlVars, pairVars>>
    /\ UNCHANGED <<replayed, tavily, breaker, limiter, laterVars>>

NextCites == ExtractCitations

SpecCites == InitCites /\ [][NextCites]_vars

-----------------------------------------------------------------------------
(* agents/writer.py WriterAgentV2._parse_action applied to one LLM output,  *)
(* and the top_k the runner takes from a Retrieve action (SpecWriterParse). *)
(* "W_OPEN"/"W_CLOSE" are <write> and </write>.                             *)

MaxWriterOutputLen == 4

\* writer_actions.py:19: top_k: int = Field(default=8, ge=1, le=50)
RetrieveTopKDefault == 8
RetrieveTopKMax == 50

\* config.py: writer_retrieve_top_k
WriterRetrieveTopK == 12

WriterAlphabet ==
    {"W_OPEN", "W_CLOSE", "T_OPEN", "T_CLOSE", "TC_OPEN", "TC_CLOSE",
     "J_RETRIEVE", "J_RETRIEVE_K0", "J_RETRIEVE_K5", "J_OTHER", "a", "SP"}

WriterAction(kind, text, top_k, has_top_k) ==
    [kind |-> kind, text |-> text, top_k |-> top_k, has_top_k |-> has_top_k]

\* the call raised: pydantic's ValidationError or the ValueError of writer.py:194
WriterRaised == WriterAction("raised", <<>>, 0, FALSE)

\* RetrieveAction.model_validate(args): the default where top_k is absent,
\* ValidationError where it is outside 1..50
RetrieveActionValidate(args) ==
    IF ~args.has_top_k THEN WriterAction("retrieve", <<>>, RetrieveTopKDefault, FALSE)
    ELSE IF args.top_k >= 1 /\ args.top_k <= RetrieveTopKMax
    THEN WriterAction("retrieve", <<>>, args.top_k, TRUE)
    ELSE WriterRaised

\* writer.py:177-194: <write>, then <terminate>, then the raw text
WriterParseTags(raw) ==
    LET m_write == SearchBlock(raw, "W_OPEN", "W_CLOSE")
        m_term == SearchBlock(raw, "T_OPEN", "T_CLOSE")
    IN IF m_write # NoMatch THEN WriterAction("write", Strip(m_write), 0, FALSE)
       ELSE IF m_term # NoMatch THEN WriterAction("terminate", Strip(m_term), 0, FALSE)
       ELSE IF Strip(raw) # <<>> THEN WriterAction("write", Strip(raw), 0, FALSE)
       ELSE WriterRaised

\* WriterAgentV2.step and _parse_action (writer.py:138-139, 165-194)
WriterParseAction(raw0) ==
    LET raw == Strip(raw0)
        payload == ParseToolCallPayload(raw)
    IN IF payload # NoJson /\ payload.name = "retrieve"
       THEN RetrieveActionValidate(payload)
       ELSE WriterParseTags(raw)

\* runner.py:1200: top_k = action.top_k or settings.writer_retrieve_top_k
RunnerTopK(a) == IF a.top_k # 0 THEN a.top_k ELSE WriterRetrieveTopK

InitWriterParse ==
    /\ BankInit /\ ConcIdle /\ ParseIdle /\ RunIdle /\ WriterIdle /\ UrlsIdle /\ PairIdle
    /\ ReplayIdle /\ TavilyIdle /\ BreakerIdle /\ LimiterIdle /\ CitesIdle
    /\ UFilterIdle /\ ProvResIdle
    /\ \E raw \in SeqsUpTo(WriterAlphabet, MaxWriterOutputLen) :
         wparse = [raw |-> raw, pc |-> "given", action |-> WriterRaised, top_k |-> 0]

\* one writer step up to the choice of top_k (runner.py:1176-1200)
WriterParseStep ==
    /\ wparse.pc = "given"
    /\ LET a == WriterParseAction(wparse.raw) IN
       wparse' = [wparse EXCEPT !.pc = "parsed", !.action = a,
                                !.top_k = IF a.kind = "retrieve" THEN RunnerTopK(a) ELSE 0]
    /\ UNCHANGED <<bankVars, concVars, parseVars, runVars, writerVars, urlVars, pairVars>>
    /\ UNCHANGED <<replayed, tavily, breaker, limiter, cites, ufilter, provres>>

NextWriterParse == WriterParseStep

SpecWriterParse == InitWriterParse /\ [][NextWriterParse]_vars

-----------------------------------------------------------------------------
(* The planner's parser applied to outputs that hold tool calls of every    *)
(* kind: a search, a search without queries, another tool (SpecParseTools). *)

MaxToolOutputLen == 3

ToolOutputAlphabet ==
    {"WO_OPEN", "WO_CLOSE", "T_OPEN", "T_CLOSE", "TC_OPEN", "TC_CLOSE",
     "J_SEARCH1", "J_NOQUERY", "J_OTHER", "a"}

InitParseTools ==
    /\ BankInit
    /\ ConcIdle
    /\ RunIdle
    /\ WriterIdle
    /\ UrlsIdle
    /\ PairIdle
    /\ AuxIdle
    /\ raw_out \in SeqsUpTo(ToolOutputAlphabet, MaxToolOutputLen)
    /\ parsed = FALSE
    /\ action = NoAction

SpecParseTools == InitParseTools /\ [][NextParse]_vars

-----------------------------------------------------------------------------
(* tools/web_search.py: the result list a provider builds from the raw      *)
(* items of one answer (SpecProvider).  A raw item is "ok", "no_url" (no    *)
(* url key or an empty one), "bad_url" (SearchResult rejects it) or, for    *)
(* Tavily, "not_dict".                                                      *)

MaxRawItems == 3

RawItemKinds(p) ==
    IF p = "tavily" THEN {"ok", "no_url", "bad_url", "not_dict"}
    ELSE {"ok", "no_url", "bad_url"}

\* web_search.py:108-126 and 216-235: enumerate(raw, start=1), the items
\* without a usable URL are passed over, rank=i
RECURSIVE ResultsFrom(_, _, _)
ResultsFrom(items, i, out) ==
    IF i > Len(items) THEN out
    ELSE IF items[i] = "ok"
         THEN ResultsFrom(items, i + 1, Append(out, [rank |-> i, item |-> i]))
         ELSE ResultsFrom(items, i + 1, out)

ProviderResults(items) == ResultsFrom(items, 1, <<>>)

InitProvider ==
    /\ BankInit /\ ConcIdle /\ ParseIdle /\ RunIdle /\ WriterIdle /\ UrlsIdle /\ PairIdle
    /\ ReplayIdle /\ TavilyIdle /\ BreakerIdle /\ LimiterIdle /\ CitesIdle
    /\ WParseIdle /\ UFilterIdle
    /\ \E p \in {"tavily", "duckduckgo"} :
         \E items \in SeqsUpTo(RawItemKinds(p), MaxRawItems) :
            provres = [provider |-> p, items |-> items, pc |-> "answered", results |-> <<>>]

\* the provider turns the answer into its result list
ProviderBuild ==
    /\ provres.pc = "answered"
    /\ provres' = [provres EXCEPT !.pc = "returned", !.results = ProviderResults(provres.items)]
    /\ UNCHANGED <<bankVars, concVars, parseVars, runVars, writerVars, urlVars, pairVars>>
    /\ UNCHANGED <<replayed, tavily, breaker, limiter, cites, wparse, ufilter>>

NextProvider == ProviderBuild

SpecProvider == InitProvider /\ [][NextProvider]_vars

-----------------------------------------------------------------------------
(* One call of UrlFilter.select_urls (SpecUrlFilter) *)

InitUrlFilter ==
    /\ BankInit /\ ConcIdle /\ ParseIdle /\ RunIdle /\ WriterIdle /\ UrlsIdle /\ PairIdle
    /\ ReplayIdle /\ TavilyIdle /\ BreakerIdle /\ LimiterIdle /\ CitesIdle
    /\ WParseIdle /\ ProvResIdle
    /\ \E results \in FilterResults, max_urls \in 1..FilterMaxUrls, answer \in FilterAnswers :
         ufilter = [results |-> results, max_urls |-> max_urls, answer |-> answer,
                    pc |-> "called", out |-> <<>>]

SelectUrlsCall ==
    /\ ufilter.pc = "called"
    /\ ufilter' = [ufilter EXCEPT
                      !.pc = "returned",
                      !.out = SelectUrls(ufilter.results, ufilter.max_urls, ufilter.answer)]
    /\ UNCHANGED <<bankVars, concVars, parseVars, runVars, writerVars, urlVars, pairVars>>
    /\ UNCHANGED <<replayed, tavily, breaker, limiter, cites, wparse, provres>>

NextUrlFilter == SelectUrlsCall

SpecUrlFilter == InitUrlFilter /\ [][NextUrlFilter]_vars

-----------------------------------------------------------------------------
(* Claims about the evidence bank used by one caller (SpecBank) *)

\* the id spelled out: ev_ and four digits; the model stays below ten records
ExpectedId(i) == <<"ev_", "0", "0", "0", DigitStr[i + 1]>>

\* C3: in one run (one EvidenceBank object) the stored ids are exactly
\* ev_0001 .. ev_000N, N = count(), in insertion order, whatever mix of new
\* content, dedup hits, adds without raw_text and failed calls came before.
C3_IdsContiguous ==
    (bank_alive /\ ~reopened) =>
        /\ Len(evidences) < 10
        /\ \A i \in 1..Len(evidences) : evidences[i].evidence_id = ExpectedId(i)

\* C3 witness: three kinds of add have happened: one stored without raw_text,
\* one stored with raw_text, and the last call was a dedup hit.
C3_Witness ==
    /\ ~reopened
    /\ Len(evidences) >= 2
    /\ \E i \in 1..Len(evidences) : evidences[i].content_hash = NoHash
    /\ \E i \in 1..Len(evidences) : evidences[i].content_hash # NoHash
    /\ last.op = "add" /\ last.dedup

BankState == <<evidences, content_hash_to_id, next_id, raw_files, jsonl>>

\* C4: an add whose (url, non-empty raw_text) was already answered by an
\* earlier add on this bank returns the record that earlier call returned and
\* leaves the maps, the counter, raw/ and evidence.jsonl as they were.
C4_DedupNoEffect ==
    [][ ( /\ n_adds' = n_adds + 1
          /\ last'.raw # <<>>
          /\ <<last'.url, last'.raw>> \in DOMAIN first_ret )
        => ( /\ last'.outcome = "returned"
             /\ last'.ret = first_ret[<<last'.url, last'.raw>>]
             /\ BankState' = BankState ) ]_vars

\* C4 witness: a dedup hit whose summary differs from the stored record's.
C4_Witness ==
    /\ last.op = "add" /\ last.dedup /\ last.outcome = "returned"
    /\ last.ret.summary # last.summary
    /\ Len(evidences) >= 1

\* C6 (as claimed): after adds that all succeeded, a new EvidenceBank on the
\* directory holds the same records in the same order, the same hash map and
\* next id = max id + 1.
C6_ReloadFaithful ==
    (last.op = "reopen" /\ ~had_failure) =>
        /\ bank_alive
        /\ evidences = pre.evidences
        /\ content_hash_to_id = pre.map
        /\ next_id = Len(pre.evidences) + 1

ValidLines(text) ==
    {SplitLines(text)[i] : i \in {k \in 1..Len(SplitLines(text)) :
                                   LineIsValid(SplitLines(text)[k])}}

\* C26: building an EvidenceBank over an evidence.jsonl that holds malformed
\* lines succeeds: the invalid lines are skipped, every valid line is loaded
\* and the next id is the largest loaded id plus one.
C26_MalformedLinesSkipped ==
    last.op = "reopen" =>
        /\ bank_alive
        /\ {evidences[i].evidence_id : i \in 1..Len(evidences)}
             = {ParseLine(l).evidence_id : l \in ValidLines(jsonl)}
        /\ \A l \in ValidLines(jsonl) : next_id > IdNumber(ParseLine(l).evidence_id)
        /\ \/ next_id = 1
           \/ \E l \in ValidLines(jsonl) : next_id = IdNumber(ParseLine(l).evidence_id) + 1

\* C7 (as claimed): an add that fails while appending to evidence.jsonl
\* leaves the id map and the hash map as they were before the call.
C7_AppendFailureClean ==
    [][ (n_adds' = n_adds + 1 /\ last'.outcome = "raised_append")
        => (evidences' = evidences /\ content_hash_to_id' = content_hash_to_id) ]_vars

-----------------------------------------------------------------------------
(* Claims about concurrent adds (SpecConc) *)

AllTasksDone == \A t \in Tasks : tpc[t] = "done"

WrittenLines == SplitLines(jsonl)

\* C5 (as claimed): whatever the interleaving, once all concurrent adds have
\* returned the outcome is that of some sequential order: every JSONL line
\* has its own id, the stored ids are contiguous, two adds with a different
\* (url, raw_text) got different records, and two adds with the same
\* (url, non-empty raw_text) share one record and one JSONL line.
C5_Serializable ==
    AllTasksDone =>
        /\ \A i, j \in 1..Len(WrittenLines) :
              i # j => ParseLine(WrittenLines[i]).evidence_id
                         # ParseLine(WrittenLines[j]).evidence_id
        /\ \A i \in 1..Len(evidences) : evidences[i].evidence_id = ExpectedId(i)
        /\ Len(WrittenLines) = Len(evidences)
        /\ \A t, u \in Tasks :
              (t # u /\ (targ[t] # targ[u] \/ targ[t].raw = <<>>))
                  => tloc[t].ret.evidence_id # tloc[u].ret.evidence_id
        /\ \A t, u \in Tasks :
              (t # u /\ targ[t] = targ[u] /\ targ[t].raw # <<>>)
                  => /\ tloc[t].ret = tloc[u].ret
                     /\ Cardinality({i \in 1..Len(WrittenLines) :
                            ParseLine(WrittenLines[i]).content_hash = tloc[t].h}) = 1

-----------------------------------------------------------------------------
(* Claims about a run of the orchestrator (SpecRun) *)

\* C1: a run that ends without a fatal error ends with report_done as its
\* last event, after the writer went through every section of the outline
\* and report.md was written, in sync and in async mode, whether the outline
\* came from the planner or from the fallback.
C1_EndsWithReportDone ==
    rpc = "done" =>
        /\ yielded # <<>>
        /\ Last(yielded).ct = "report_done"
        /\ report_written
        /\ sec_idx = Len(sections) + 1

\* C2: the k-th event of events.jsonl has seq = k.
C2_SeqIsPosition ==
    \A k \in 1..Len(events) : events[k].seq = k

Positions(s, ct) == {k \in 1..Len(s) : s[k].ct = ct}

\* C20: when the planner's LLM call raises during a planner step, an error
\* event is emitted and the loop goes on with the next planner step: the
\* exception never leaves the event stream, so no run is ended by it.
C20_PlannerFailureContained ==
    rpc # "raised"

\* C8: after a planner step whose answer was Terminate while no outline
\* existed, a search_query event for the original query comes before the next
\* planner_step event (and before any outline_updated event); and no
\* planner_terminate event comes before the first outline_updated event.
C8_EarlyTerminateSearches ==
    /\ \A i \in early_terms :
         \A j \in (i + 1)..Len(yielded) :
            yielded[j].ct \in {"planner_step", "outline_updated"} =>
               \E k \in (i + 1)..(j - 1) :
                  yielded[k].ct = "search_query" /\ yielded[k].q = OrigQuery
    /\ \A j \in Positions(yielded, "planner_terminate") :
         \E k \in Positions(yielded, "outline_updated") : k < j

\* C8 witness: the planner asked to terminate with no outline, the original
\* query was searched, and the planner loop went on to its next step.
C8_Witness ==
    \E i \in early_terms :
       /\ Len(yielded) > i + 1
       /\ yielded[i + 1].ct = "search_query"
       /\ yielded[i + 1].q = OrigQuery
       /\ \E j \in Positions(yielded, "planner_step") : j > i + 1

-----------------------------------------------------------------------------
(* Claims about the writer loop (SpecWriter) *)

\* C11: across the retrieves of a run no evidence id is listed twice in
\* writer_retrieve_results events, within one event or across events and
\* sections, and the used-ids set never loses an id.
C11_NoIdSurfacedTwice ==
    [][used_ids \subseteq used_ids' /\ ~resurfaced']_vars

\* C11 witness: in the second section, with ids already used, a retrieve by
\* citation ids has surfaced an evidence.
C11_Witness ==
    /\ wsec = 2
    /\ wlast.op = "retrieve"
    /\ ~wlast.lexical
    /\ wlast.used_before # {}
    /\ wlast.result # <<>>

Fits(ev) == ToolResponseMaxChars - (ev.size + PruneOverhead) > 0

MatchingUnused(tokens, used) ==
    {i \in 1..Len(wbank) : Score(tokens, wbank[i]) >= 1 /\ wbank[i].id \notin used}

\* C12: a lexical retrieve that did not raise surfaces at least one evidence
\* whenever the bank holds an unused evidence matching the query, each such
\* evidence being within the character budget.
C12_LexicalRetrieveStreams ==
    (/\ wlast.op = "retrieve"
     /\ wlast.lexical
     /\ ~wlast.raised
     /\ MatchingUnused(wlast.tokens, wlast.used_before) # {}
     /\ \A i \in MatchingUnused(wlast.tokens, wlast.used_before) : Fits(wbank[i]))
    => wlast.result # <<>>

\* s is t with some entries left out: the order of t is kept
RECURSIVE IsSubsequence(_, _)
IsSubsequence(s, t) ==
    IF s = <<>> THEN TRUE
    ELSE IF t = <<>> THEN FALSE
    ELSE IF Head(s) = Head(t) THEN IsSubsequence(Tail(s), Tail(t))
    ELSE IsSubsequence(s, Tail(t))

\* the ids a Retrieve action is to resolve: its own, else the section's
TargetIds == IF wlast.cits # <<>> THEN wlast.cits ELSE wsections[wsec].cits

\* C31: the evidences a Retrieve surfaces come from one source: the action's
\* citation_ids when it has any, else the citation ids of the section's
\* outline body when it has any (in both cases in the order of the ids, ids
\* missing from the bank skipped), else the evidences matching the query; the
\* query is not consulted when either id list is non-empty.
C31_OneRetrieveSource ==
    (wlast.op = "retrieve" /\ ~wlast.raised) =>
        IF TargetIds # <<>>
        THEN /\ IsSubsequence(wlast.result, TargetIds)
             /\ Range(wlast.result) \subseteq 1..Len(wbank)
             /\ ~wlast.lexical
        ELSE /\ wlast.lexical
             /\ \A i \in Range(wlast.result) : Score(wlast.tokens, wbank[i]) >= 1

\* C31 witness: a Retrieve with citation ids that are all used or missing,
\* while an unused evidence matches its query: nothing is surfaced.
C31_Witness ==
    /\ wlast.op = "retrieve" /\ ~wlast.raised
    /\ wlast.cits # <<>>
    /\ Range(wlast.cits) \cap (1..Len(wbank)) \subseteq wlast.used_before
    /\ MatchingUnused(wlast.tokens, wlast.used_before) # {}
    /\ wlast.result = <<>>

\* C13: after a Retrieve the section's tool response is the NO_NEW_EVIDENCE
\* placeholder when nothing was surfaced (also when the retrieval raised) and
\* otherwise a block with one entry per surfaced evidence; the writer step
\* that follows a Retrieve is never given an empty or absent tool response.
C13_ToolResponseNeverEmpty ==
    /\ wlast.op = "retrieve" =>
         tool_response = IF wlast.result = <<>> THEN NoNewEvidence
                         ELSE <<"TR_OPEN", "M_OPEN">> \o IdTexts(wlast.result)
                              \o <<"M_CLOSE", "TR_CLOSE">>
    /\ given.after_retrieve =>
         /\ given.tr # NoToolResponse
         /\ Len(given.tr) >= 5
         /\ SubSeq(given.tr, 1, 2) = <<"TR_OPEN", "M_OPEN">>

\* C13 witness: a writer step was given the placeholder left by the Retrieve
\* before it.
C13_Witness ==
    /\ given.after_retrieve
    /\ given.tr = NoNewEvidence

\* C14: every entry of the references list names an evidence of the bank and
\* every used id that the bank holds has exactly one entry.
C14_ReferencesMatchBank ==
    wpc = "done" =>
        /\ \A k \in 1..Len(refs) : refs[k] \in 1..Len(wbank)
        /\ \A id \in used_ids \cap 1..Len(wbank) :
              Cardinality({k \in 1..Len(refs) : refs[k] = id}) = 1

\* C14 witness: the references were rendered for a run that used every
\* evidence of the bank.
C14_Witness ==
    /\ wpc = "done"
    /\ used_ids = 1..Len(wbank)
    /\ Len(refs) = Len(wbank)

Matching(tokens) == {i \in 1..Len(wbank) : Score(tokens, wbank[i]) >= 1}

Smaller(a, b) == IF a < b THEN a ELSE b

\* C25: retrieve_scored(query, top_k) returns at most top_k pairs, only
\* evidences of the bank with score at least 1, each with its score, in
\* non-increasing score order and equal scores in insertion order; the list
\* is fixed by the bank and the query: it holds the top_k best matches.
C25_RetrieveScoredRanked ==
    \A tokens \in WriterQueries, k \in 1..MaxTopK :
        LET res == RetrieveScored(wbank, tokens, k)
        IN /\ Len(res) = Smaller(k, Cardinality(Matching(tokens)))
           /\ \A i \in 1..Len(res) :
                 /\ res[i].ev.id \in Matching(tokens)
                 /\ res[i].ev = wbank[res[i].ev.id]
                 /\ res[i].score = Score(tokens, res[i].ev)
                 /\ res[i].score >= 1
           /\ \A i, j \in 1..Len(res) :
                 i < j => \/ res[i].score > res[j].score
                          \/ /\ res[i].score = res[j].score
                             /\ res[i].ev.id < res[j].ev.id
           /\ \A m \in Matching(tokens) \ {res[i].ev.id : i \in 1..Len(res)} :
                 \A i \in 1..Len(res) :
                    \/ res[i].score > Score(tokens, wbank[m])
                    \/ /\ res[i].score = Score(tokens, wbank[m])
                       /\ res[i].ev.id < m

\* C25 witness: a lexical retrieve over a bank with two evidences of equal
\* score for one query and a later evidence outranking an earlier one for
\* the other, cut to top_k = 1.
C25_Witness ==
    /\ wlast.op = "retrieve"
    /\ wlast.lexical
    /\ ~wlast.raised
    /\ wlast.top_k = 1
    /\ wlast.tokens = {"aa", "bb"}
    /\ Score({"aa"}, wbank[1]) = Score({"aa"}, wbank[2])
    /\ Score({"aa", "bb"}, wbank[1]) < Score({"aa", "bb"}, wbank[2])
    /\ wlast.result = <<2>>

\* C30: after every Retrieve the used ids are exactly the ids that were
\* included in a tool response so far (an id cut by the character budget is
\* not marked used), so every entry of the references list was shown to the
\* writer at least once.
C30_UsedIdsWereSurfaced ==
    /\ used_ids = surfaced
    /\ wpc = "done" => Range(refs) \subseteq surfaced

-----------------------------------------------------------------------------
(* Claims about the selected URLs of one search query (SpecUrls) *)

AllEmitted == qpc = "urls" /\ emitted = Len(selected)

\* the event that follows url_selected for a URL with this outcome
FollowUp(o) ==
    CASE o = "added" -> <<"evidence_added">>
      [] o = "not_relevant" -> <<>>
      [] OTHER -> <<"error">>

\* content type and URL of the events of the first k selected URLs, in the
\* order of selection
RECURSIVE SelectionOrderShape(_)
SelectionOrderShape(k) ==
    IF k = 0 THEN <<>>
    ELSE SelectionOrderShape(k - 1)
         \o <<[ct |-> "url_selected", url |-> selected[k].url]>>
         \o [j \in 1..Len(FollowUp(selected[k].outcome)) |->
               [ct |-> FollowUp(selected[k].outcome)[j], url |-> selected[k].url]]

Shape(evs) == [k \in 1..Len(evs) |-> [ct |-> evs[k].ct, url |-> evs[k].url]]

\* C15: in the async runner no per-URL event of a query is emitted before
\* all its tasks have finished, and the events then come in selection order,
\* each url_selected directly followed by that URL's evidence_added or error
\* (nothing for a page that is not relevant), whatever the completion order.
C15_EventsAfterGatherInSelectionOrder ==
    umode = "async" =>
        /\ (uevents # <<>> => Len(finished) = Len(selected))
        /\ Shape(uevents) = SelectionOrderShape(emitted)

\* three tasks that completed last-first, one added, one failed, one not
\* relevant, and all their events emitted
C15_Witness ==
    /\ umode = "async"
    /\ AllEmitted
    /\ finished = <<3, 2, 1>>
    /\ {selected[i].outcome : i \in 1..3} = {"added", "error", "not_relevant"}

\* the URLs before the k-th whose add call took a number from the counter
Allocating(k) ==
    {j \in 1..(k - 1) : selected[j].outcome \in {"added", "store_append_fail"}}

\* the id the k-th URL gets when the tasks complete in selection order
SelectionOrderId(k) == FormatEvidenceId(1 + Cardinality(Allocating(k)))

\* C16: for fixed per-URL outcomes the events of an async search step, the
\* evidence id in each evidence_added and the id under which each URL's
\* evidence is stored are the same for every completion order: they are
\* what the completion order equal to the selection order gives.
C16_StreamIndependentOfCompletionOrder ==
    (umode = "async" /\ AllEmitted) =>
        /\ \A k \in 1..Len(uevents) :
             uevents[k].ct = "evidence_added" =>
                \E i \in 1..Len(selected) :
                    /\ selected[i].url = uevents[k].url
                    /\ uevents[k].evidence_id = SelectionOrderId(i)
        /\ \A e \in Range(evidences) :
             \E i \in 1..Len(selected) :
                 /\ selected[i].url = e.url
                 /\ e.evidence_id = SelectionOrderId(i)

UrlFailed(i) == selected[i].outcome \in {"error", "store_raw_fail", "store_append_fail"}

Processed(i) == IF umode = "async" THEN AllEmitted ELSE i <= emitted

\* C18: a failure while fetching, parsing, summarizing, extracting or
\* storing one selected URL gives exactly one error event carrying that URL,
\* leaves the bank without a record for that URL, and the remaining selected
\* URLs are still processed.
C18_UrlFailureIsolated ==
    /\ \A i \in 1..Len(selected) :
         (UrlFailed(i) /\ Processed(i)) =>
            /\ Cardinality({k \in 1..Len(uevents) :
                              uevents[k].ct = "error" /\ uevents[k].url = selected[i].url}) = 1
            /\ \A e \in Range(evidences) : e.url # selected[i].url
    /\ \A i \in Range(finished) :
         UrlFailed(i) => \A e \in Range(evidences) : e.url # selected[i].url
    /\ (qpc = "urls" /\ emitted < Len(selected)) => (ENABLED NextUrls)

\* the provider call of the query fails
ProviderFailed ==
    failing_attempts > (IF provider = "tavily" THEN TavilyMaxRetries ELSE 0)

\* C19: when the search provider fails for a query, with tavily or with
\* duckduckgo, one error event naming the query is emitted, the query's
\* search_results event carries an empty list, no URL is processed for the
\* query, and the handler goes on to the next query.
C19_ProviderFailureReported ==
    (ProviderFailed /\ qpc = "urls") =>
        /\ Cardinality({k \in 1..Len(qevents) :
                          qevents[k].ct = "error" /\ qevents[k].q = <<"q">>}) = 1
        /\ Last(qevents) = QueryEvent("search_results", 0)
        /\ selected = <<>>
        /\ finished = <<>>
        /\ uevents = <<>>

-----------------------------------------------------------------------------
(* Claims about the two runners side by side (SpecPair) *)

\* C17: for the same query, settings and external responses the sync and
\* the async runner emit the same sequence of event content types from
\* run_started to report_done and leave the same outline.md and report.md.
C17_SyncAsyncEquivalent ==
    (runs # <<>> /\ \A m \in Modes : Ended(runs[m])) =>
        /\ runs["sync"].types = runs["async"].types
        /\ runs["sync"].outline_md = runs["async"].outline_md
        /\ runs["sync"].report_md = runs["async"].report_md

-----------------------------------------------------------------------------
(* Claims about the planner's parser (SpecParse) *)

\* positions i < j of a complete <write_outline>...</write_outline> block
\* whose body holds no closing tag
IsOutlineBlock(text, i, j) ==
    /\ i < j
    /\ text[i] = "WO_OPEN"
    /\ text[j] = "WO_CLOSE"
    /\ \A k \in (i + 1)..(j - 1) : text[k] # "WO_CLOSE"

HasOutlineBlock(text) == \E i, j \in 1..Len(text) : IsOutlineBlock(text, i, j)

\* C10: an output holding a complete <write_outline> block is parsed as
\* WriteOutline of the trimmed body of the first (leftmost) such block, whatever
\* <terminate> blocks, tool calls or prose stand before or after it.
C10_OutlineWins ==
    (parsed /\ HasOutlineBlock(raw_out)) =>
        /\ action.kind = "write_outline"
        /\ \E i, j \in 1..Len(raw_out) :
              /\ IsOutlineBlock(raw_out, i, j)
              /\ \A i2, j2 \in 1..Len(raw_out) : IsOutlineBlock(raw_out, i2, j2) => i <= i2
              /\ action.text = Strip(SubSeq(raw_out, i + 1, j - 1))

\* C10 witness: a complete <terminate> block stands before the outline block
\* and the parser has answered with the outline.
C10_Witness ==
    /\ parsed
    /\ raw_out = <<"T_OPEN", "T_CLOSE", "WO_OPEN", "a", "WO_CLOSE">>
    /\ action = WriteOutlineAction(<<"a">>)

-----------------------------------------------------------------------------
(* Claims about replay_run (SpecReplay) *)

\* C24 (as claimed): replay_run for a recorded run yields exactly the events
\* of events.jsonl, in seq order and equal field by field to the events
\* yielded live, without raising; the mirror is read only when the local
\* file is missing or empty.
C24_ReplayYieldsRecorded ==
    replayed.op = "replay" =>
        /\ ~replayed.raised
        /\ (replayed.local /\ events # <<>>) =>
              /\ replayed.events = events
              /\ replayed.events = yielded
        /\ \A i \in 1..(Len(replayed.events) - 1) :
              replayed.events[i].seq < replayed.events[i + 1].seq
        /\ replayed.mirror_read => (~replayed.local \/ events = <<>>)

-----------------------------------------------------------------------------
(* Claims about TavilySearchProvider.search (SpecTavily) *)

Failed(resp) == resp.kind # "ok"

\* the failures the specification calls retryable
Retryable(resp) ==
    \/ resp.kind \in {"timeout", "request_error"}
    \/ resp.kind = "status" /\ resp.status \in TransientStatuses

\* C21 (as claimed): one search call makes at most max_retries HTTP attempts
\* and, once it has ended with every attempt failed, it has raised the typed
\* search error.
C21_AtMostMaxRetriesAttempts ==
    tavily # <<>> =>
        /\ Len(tavily.log) <= tavily.cfg.max_retries
        /\ (tavily.pc # "calling" /\ \A i \in 1..Len(tavily.log) : Failed(tavily.log[i].resp))
              => tavily.pc = "search_error"

\* C22 (as claimed): an attempt is followed by another attempt only when it
\* failed in a retryable way; a terminal failure is the last attempt and the
\* call has ended with the search error.
C22_OnlyRetryableRetried ==
    tavily # <<>> =>
        \A i \in 1..Len(tavily.log) :
            LET resp == tavily.log[i].resp IN
            /\ (i < Len(tavily.log) \/ tavily.log[i].slept) => Retryable(resp)
            /\ (Failed(resp) /\ ~Retryable(resp))
                  => (i = Len(tavily.log) /\ tavily.pc = "search_error")

\* C23 (as claimed): the wait after failed attempt k (k = 0 for the first) is
\* min(max_backoff, base * 2^k), except that a Retry-After hint (a length of
\* time, so not negative) on the failed response, whatever its retryable
\* status, is the wait.
C23_WaitIsBackoffOrHint ==
    tavily # <<>> =>
        \A i \in 1..Len(tavily.log) :
            LET e == tavily.log[i] IN
            e.slept =>
                e.sleep_s = IF Retryable(e.resp) /\ e.resp.hint.present /\ e.resp.hint.s >= 0
                            THEN e.resp.hint.s
                            ELSE Min(tavily.cfg.retry_max_backoff_s,
                                     tavily.cfg.retry_backoff_s * Pow2(i - 1))

-----------------------------------------------------------------------------
(* Claims about the circuit breaker (SpecBreaker) *)

Elapsed(b) == b.now - b.last_failure_time >= b.cfg.recovery_timeout

\* C27: the state changes only closed -> open (a failure brings the count to
\* the threshold), open -> half_open (a call made once recovery_timeout has
\* elapsed since the last failure), half_open -> closed (a success, the count
\* is reset) and half_open -> open (a failure); a call made while the breaker
\* is open and the timeout has not elapsed raises CircuitBreakerOpenError and
\* func is not invoked; the first call made after the timeout has elapsed
\* moves the breaker to half_open.
C27_BreakerTransitions ==
    [][ /\ (breaker'.state # breaker.state) =>
              \/ /\ breaker.state = "closed" /\ breaker'.state = "open"
                 /\ breaker'.last.op = "failure"
                 /\ breaker.failure_count < breaker.cfg.failure_threshold
                 /\ breaker'.failure_count = breaker.cfg.failure_threshold
              \/ /\ breaker.state = "open" /\ breaker'.state = "half_open"
                 /\ breaker'.last.op = "enter"
                 /\ Elapsed(breaker)
              \/ /\ breaker.state = "half_open" /\ breaker'.state = "closed"
                 /\ breaker'.last.op = "success"
                 /\ breaker'.failure_count = 0
              \/ /\ breaker.state = "half_open" /\ breaker'.state = "open"
                 /\ breaker'.last.op = "failure"
        /\ (breaker.state = "open" /\ ~Elapsed(breaker) /\ breaker'.last.op \in {"enter", "rejected"})
              => /\ breaker'.last.op = "rejected"
                 /\ breaker'.invoked = breaker.invoked
                 /\ breaker'.pc = breaker.pc
                 /\ breaker'.state = "open"
        /\ (breaker.state = "open" /\ Elapsed(breaker) /\ breaker'.last.op \in {"enter", "rejected"})
              => /\ breaker'.last.op = "enter"
                 /\ breaker'.state = "half_open"
      ]_vars

\* C27 witness: the breaker has been through the whole cycle (the count is
\* back at 0 after failures, which only half_open -> closed does) while the
\* other caller's func is still running, and it is closed again.
C27_Witness ==
    /\ breaker # <<>>
    /\ breaker.state = "closed"
    /\ breaker.last.op = "success"
    /\ breaker.failure_count = 0
    /\ breaker.last_failure_time # 0
    /\ \E c \in Callers : breaker.pc[c] = "running"

-----------------------------------------------------------------------------
(* Claims about the rate limiter (SpecLimiter) *)

\* C28 (as claimed): every call acquire(n) that has been made returns in the
\* end, whatever n >= 1 and whoever else is calling, as long as time goes on;
\* and the bucket level stays within 0..max_tokens.
C28_AcquireReturns ==
    /\ [](limiter.bucket >= 0 /\ limiter.bucket <= limiter.max_tokens)
    /\ \A c \in LCallers :
          (limiter.pc[c] \in {"waiting", "sleeping"}) ~> (limiter.pc[c] = "done")

-----------------------------------------------------------------------------
(* Claims about extract_citation_ids (SpecCites) *)

\* the citation tags of a text: an opening tag at i, a closing tag at j and
\* between them at least one token, none of them a tag
CitationTags(text) ==
    {t \in (1..Len(text)) \X (1..Len(text)) :
        /\ t[1] + 1 < t[2]
        /\ text[t[1]] = "OPEN"
        /\ text[t[2]] = "CLOSE"
        /\ \A k \in (t[1] + 1)..(t[2] - 1) : NotLt(text[k])}

\* the places where an id stands: from a to b inside a tag, in a part c..d
\* of the tag that is bounded by the tag or a comma on either side and holds
\* no comma; around a..b the part holds blanks only, and a..b neither starts
\* nor ends with a blank
IdPlaces(text) ==
    {p \in (1..Len(text)) \X (1..Len(text)) :
        /\ p[1] <= p[2]
        /\ text[p[1]] # "SP" /\ text[p[2]] # "SP"
        /\ \E t \in CitationTags(text) :
              /\ t[1] < p[1] /\ p[2] < t[2]
              /\ \E c \in (t[1] + 1)..p[1], d \in p[2]..(t[2] - 1) :
                    /\ text[c - 1] \in {"OPEN", ","}
                    /\ text[d + 1] \in {"CLOSE", ","}
                    /\ \A k \in c..d : text[k] # ","
                    /\ \A k \in c..(p[1] - 1) : text[k] = "SP"
                    /\ \A k \in (p[2] + 1)..d : text[k] = "SP"}

IdAt(text, p) == SubSeq(text, p[1], p[2])

\* where id stands first in the text
FirstPlace(text, id) ==
    CHOOSE a \in 1..Len(text) :
        /\ \E p \in IdPlaces(text) : p[1] = a /\ IdAt(text, p) = id
        /\ \A p \in IdPlaces(text) : IdAt(text, p) = id => p[1] >= a

\* C29: extract_citation_ids returns the ids of all citation tags of the
\* text, split on commas and trimmed, every id once, in the order in which
\* the ids first stand in the text.
C29_CitationIdsOrderedOnce ==
    (cites # <<>> /\ cites.pc = "extracted") =>
        LET text == cites.text
            out == cites.out
        IN /\ Range(out) = {IdAt(text, p) : p \in IdPlaces(text)}
           /\ \A k, l \in 1..Len(out) : k # l => out[k] # out[l]
           /\ \A k, l \in 1..Len(out) :
                 k < l => FirstPlace(text, out[k]) < FirstPlace(text, out[l])

\* C29 witness: two tags, the second repeats an id of the first and brings a
\* new one; the repeated id is returned once, in first place.
C29_Witness ==
    /\ cites # <<>>
    /\ cites.pc = "extracted"
    /\ Cardinality(CitationTags(cites.text)) = 2
    /\ \E p, q \in IdPlaces(cites.text) :
          p # q /\ IdAt(cites.text, p) = IdAt(cites.text, q)
    /\ Len(cites.out) = 1

-----------------------------------------------------------------------------
(* Claims about the writer's parser (SpecWriterParse) *)

HasToken(text, toks) == \E i \in 1..Len(text) : text[i] \in toks

\* C32 (as claimed): every non-empty output becomes a Retrieve, Write or
\* Terminate action and the parser does not raise, also for a retrieve call
\* with a bad payload; an output without a retrieve call and without any
\* tag becomes a Write of the trimmed raw text.
C32_WriterParseNeverRaises ==
    (wparse # <<>> /\ wparse.pc = "parsed" /\ Strip(wparse.raw) # <<>>) =>
        /\ wparse.action.kind \in {"retrieve", "write", "terminate"}
        /\ ~HasToken(wparse.raw, {"J_RETRIEVE", "J_RETRIEVE_K0", "J_RETRIEVE_K5",
                                   "W_OPEN", "T_OPEN"})
              => wparse.action = WriterAction("write", Strip(wparse.raw), 0, FALSE)

\* C37 (as claimed): a Retrieve action that does not specify top_k is run
\* with the configured writer_retrieve_top_k.
C37_DefaultTopKFromSettings ==
    (/\ wparse # <<>> /\ wparse.pc = "parsed"
     /\ wparse.action.kind = "retrieve"
     /\ ~wparse.action.has_top_k)
    => wparse.top_k = WriterRetrieveTopK

-----------------------------------------------------------------------------
(* Claims about the planner's parser on tool calls (SpecParseTools) *)

HasTerminateBlock(text) ==
    \E i, j \in 1..Len(text) : i < j /\ text[i] = "T_OPEN" /\ text[j] = "T_CLOSE"

\* C33 (as claimed): the parser answers Terminate only for an output with a
\* <terminate> block and no <write_outline> block, or for an empty output;
\* every other non-empty output that gives no search is WriteOutline of the
\* trimmed raw text.
C33_TerminateOnlyOnTagOrEmpty ==
    parsed =>
        /\ action.kind = "terminate" =>
              \/ HasTerminateBlock(raw_out) /\ ~HasOutlineBlock(raw_out)
              \/ Strip(raw_out) = <<>>
        /\ (/\ Strip(raw_out) # <<>>
            /\ ~HasTerminateBlock(raw_out)
            /\ ~HasOutlineBlock(raw_out)
            /\ action.kind # "search")
           => action = WriteOutlineAction(Strip(raw_out))

-----------------------------------------------------------------------------
(* Claims about the providers' result lists (SpecProvider) *)

\* C36 (as claimed): the results a provider returns carry the ranks 1, 2,
\* ..., n without gap or repeat, also when raw items were dropped.
C36_RanksDense ==
    (provres # <<>> /\ provres.pc = "returned") =>
        \A k \in 1..Len(provres.results) : provres.results[k].rank = k

-----------------------------------------------------------------------------
(* Claims about UrlFilter.select_urls (SpecUrlFilter) *)

\* the ranks of the answer that name a result given, in the answer's order
ValidRanks ==
    IF ufilter.answer.kind = "ranks"
    THEN SelectSeq(ufilter.answer.ranks, LAMBDA x : x \in Range(ufilter.results))
    ELSE <<>>

\* C35: select_urls returns the list given when it has at most max_urls
\* entries; otherwise it returns between 1 and max_urls results, each one of
\* the results given: the results named by the LLM's ranks, in the order of
\* those ranks, or, when the answer is unparseable or names no result given,
\* the first max_urls results given.
C35_SelectUrls ==
    (ufilter # <<>> /\ ufilter.pc = "returned") =>
        IF Len(ufilter.results) <= ufilter.max_urls
        THEN ufilter.out = ufilter.results
        ELSE /\ Len(ufilter.out) >= 1 /\ Len(ufilter.out) <= ufilter.max_urls
             /\ Range(ufilter.out) \subseteq Range(ufilter.results)
             /\ IF ValidRanks = <<>>
                THEN ufilter.out = SubSeq(ufilter.results, 1, ufilter.max_urls)
                ELSE /\ Len(ufilter.out) = Min(ufilter.max_urls, Len(ValidRanks))
                     /\ \A k \in 1..Len(ufilter.out) : ufilter.out[k] = ValidRanks[k]

\* C35 witness: more results than max_urls; the answer names a rank that no
\* result has, then a later result before an earlier one; the selection
\* follows the answer.
C35_Witness ==
    /\ ufilter # <<>> /\ ufilter.pc = "returned"
    /\ Len(ufilter.results) > ufilter.max_urls
    /\ Len(ufilter.answer.ranks) = 3
    /\ ufilter.answer.ranks[1] \notin Range(ufilter.results)
    /\ Len(ufilter.out) = 2
    /\ ufilter.out[1] > ufilter.out[2]

-----------------------------------------------------------------------------
(* Claims about the outline versions of a run (SpecRun) *)

\* the versions carried by the outline_updated events of a log, in order
OutlineVersions(log) ==
    LET upd == SelectSeq(log, LAMBDA e : e.ct = "outline_updated")
    IN [k \in 1..Len(upd) |-> upd[k].v]

CountsUp(vs) == \A k \in 1..Len(vs) : vs[k] = k

\* C38: the outline_updated events of a run carry the versions 1, 2, 3, ...
\* in order, in the events the caller receives, in events.jsonl and in the
\* Redis list, and while the run goes on outline.md holds the text of the
\* outline that the last of these events announced.
C38_OutlineVersionsCountUp ==
    /\ CountsUp(OutlineVersions(yielded))
    /\ CountsUp(OutlineVersions(events))
    /\ CountsUp(OutlineVersions(redis_log))
    /\ (rpc # "crashed" /\ OutlineVersions(events) # <<>>) =>
          /\ outline_md = outline.text
          /\ OutlineVersions(events)[Len(OutlineVersions(events))] = outline.version

-----------------------------------------------------------------------------
(* Claims about the budgets of a run (SpecRun) *)

\* the events of kind ct that follow the event at position i before the next
\* event of the kind of position i
Following(s, i, ct) ==
    {k \in Positions(s, ct) :
        /\ k > i
        /\ ~\E j \in Positions(s, s[i].ct) : i < j /\ j < k}

WithinBudgets(s) ==
    /\ Cardinality(Positions(s, "planner_step")) <= PlannerMaxSteps
    /\ \A i \in Positions(s, "planner_step") :
          Cardinality(Following(s, i, "search_query")) <= MaxQueriesPerStep
    /\ \A i \in Positions(s, "search_query") :
          Cardinality(Following(s, i, "url_selected")) <= MaxUrlsPerQuery
    /\ \A i \in Positions(s, "writer_section_start") :
          Cardinality(Following(s, i, "writer_step")) <= WriterMaxStepsPerSection
    /\ \A i, j \in Positions(s, "writer_section_start") :
          i < j => \E k \in Positions(s, "writer_section_done") : i < k /\ k < j

\* what is left of the run: the phase, the iterations left of the outer loop
\* of the phase, and the steps left of the inner loop
Phase ==
    CASE rpc = "init" -> 6
      [] rpc \in {"planner", "search"} -> 5
      [] rpc = "after_planner" -> 4
      [] rpc = "judge" -> 3
      [] rpc \in {"section", "wstep", "section_done"} -> 2
      [] rpc = "report" -> 1
      [] OTHER -> 0

OuterLeft ==
    CASE rpc \in {"planner", "search"} -> PlannerMaxSteps - step_idx
      [] rpc \in {"section", "wstep", "section_done"} -> Len(sections) + 1 - sec_idx
      [] OTHER -> 0

InnerLeft ==
    CASE rpc = "planner" -> MaxQueriesPerStep + 1
      [] rpc = "search" -> Len(pending)
      [] rpc = "section" -> WriterMaxStepsPerSection + 2
      [] rpc = "wstep" -> WriterMaxStepsPerSection + 1 - step_in_section
      [] OTHER -> 0

RunGetsShorter ==
    /\ Phase' >= 0 /\ OuterLeft' >= 0 /\ InnerLeft' >= 0
    /\ \/ Phase' < Phase
       \/ Phase' = Phase /\ OuterLeft' < OuterLeft
       \/ Phase' = Phase /\ OuterLeft' = OuterLeft /\ InnerLeft' < InnerLeft

\* C34: whatever the LLMs answer, a run stays within its budgets: at most
\* planner_max_steps planner_step events, at most planner_max_queries_per_step
\* search_query events per planner step, at most planner_max_urls_per_query
\* url_selected events per query, at most writer_max_steps_per_section
\* writer_step events per section, a writer_section_done between any two
\* writer_section_start events and one for every section once the writer is
\* through; and every step of the run brings it nearer to its end, so the run
\* terminates.
C34_RunWithinBudgets ==
    /\ [](/\ WithinBudgets(yielded)
          /\ WithinBudgets(events)
          /\ rpc \in {"report", "done"} =>
               Cardinality(Positions(yielded, "writer_section_done"))
                 = Cardinality(Positions(yielded, "writer_section_start")))
    /\ [][RunGetsShorter]_vars

\* C34 witness: the planner used all its steps, a query had as many URLs as
\* allowed, a section had as many writer steps as allowed, and the writer is
\* through all sections.
C34_Witness ==
    /\ rpc = "report"
    /\ Cardinality(Positions(yielded, "planner_step")) = PlannerMaxSteps
    /\ \E i \in Positions(yielded, "search_query") :
          Cardinality(Following(yielded, i, "url_selected")) = MaxUrlsPerQuery
    /\ \E i \in Positions(yielded, "writer_section_start") :
          Cardinality(Following(yielded, i, "writer_step")) = WriterMaxStepsPerSection
    /\ Positions(yielded, "writer_section_done") # {}

-----------------------------------------------------------------------------
(* Claims about the records of the bank under adds from several tasks (SpecConc) *)

\* every record stored before the step is stored unchanged after it, and
\* evidence.jsonl has only grown at its end
RecordsKept ==
    /\ \A i \in 1..Len(evidences) :
          /\ DictHas(evidences', evidences[i].evidence_id)
          /\ DictGet(evidences', evidences[i].evidence_id) = evidences[i]
    /\ Len(jsonl') >= Len(jsonl)
    /\ SubSeq(jsonl', 1, Len(jsonl)) = jsonl

\* C39: once a record is in the bank no later add changes or removes it, and
\* no line already written to evidence.jsonl is changed.
C39_RecordsNeverChange == [][RecordsKept]_vars

-----------------------------------------------------------------------------
(* Claims about the announced and the stored evidence (SpecUrls) *)

AnnouncedIds == {e.evidence_id : e \in {x \in Range(uevents) : x.ct = "evidence_added"}}

StoredIds == {e.evidence_id : e \in Range(evidences)}

\* C40: when every selected URL of the run has been processed, the ids
\* carried by the evidence_added events are the ids stored in the evidence
\* bank, in sync and in async mode.
C40_AnnouncedIsStored ==
    AllEmitted => AnnouncedIds = StoredIds

====
